---- MODULE Spec2Model ----
(***************************************************************************)
(* Verification model of the HTTP server: the request parser, the          *)
(* per-connection state machine (Connection), and the request dispatch of  *)
(* HttpServer.                                                             *)
(*                                                                         *)
(* Byte strings are sequences of tokens.  CR and LF are tokens of their    *)
(* own, so the searches for "\r\n\r\n", "\n\n", "\r\n" and "\r\n0\r\n\r\n" *)
(* are searches in the sequence.  Every other token is a run of bytes      *)
(* that holds neither CR nor LF: a request line, a header line, a chunk    *)
(* size line, or a run of n filler bytes 'x'.  Each token has its size in  *)
(* bytes, so lengths and offsets are byte counts as in the source.         *)
(***************************************************************************)
EXTENDS Integers, Sequences, FiniteSets, TLC

(***************************************************************************)
(* Program constants.                                                      *)
(***************************************************************************)
MAX_REQUEST_SIZE == 1048576
BUFFER_SIZE == 8192
TIMEOUT == 30
MAX_BODY_SIZE == 10485760
STREAM_CHUNK == 8192

(***************************************************************************)
(* Bounds of the model.                                                    *)
(***************************************************************************)
MaxTime == 32
MaxRequests == 2

TickStep == 15

(***************************************************************************)
(* Tokens.                                                                 *)
(***************************************************************************)
Tok(t, a, b, c, n, sz) == [t |-> t, a |-> a, b |-> b, c |-> c, n |-> n, sz |-> sz]

CR == Tok("CR", "", "", "", 0, 1)
LF == Tok("LF", "", "", "", 0, 1)
\* "<method> <target> <version>"
RL(method, target, version) == Tok("RL", method, target, version, 0, 19)
\* "<name>: <value>"; n is what std::stoull makes of the value (0 if it throws)
HDR(name, value, n) == Tok("HDR", name, value, "", n, 16)
\* a chunk size line of sz hex digits whose value is n
HEX(n, sz) == Tok("HEX", "", "", "", n, sz)
\* n bytes 'x'
FILL(n) == Tok("FILL", "", "", "", n, n)

RECURSIVE Size(_)
Size(s) == IF s = <<>> THEN 0 ELSE Head(s).sz + Size(Tail(s))

Drop(s, k) == SubSeq(s, k + 1, Len(s))
Take(s, k) == SubSeq(s, 1, k)

\* std::string::append of a run of bytes: adjacent filler runs are one run
Append2(s, chunk) ==
    IF s # <<>> /\ chunk # <<>> /\ s[Len(s)].t = "FILL" /\ chunk[1].t = "FILL"
    THEN Take(s, Len(s) - 1) \o <<FILL(s[Len(s)].n + chunk[1].n)>> \o Tail(chunk)
    ELSE s \o chunk

(***************************************************************************)
(* std::string::find on token sequences.  The result is a token index, 0   *)
(* for npos.                                                               *)
(***************************************************************************)
MatchAt(s, i, pat) ==
    /\ i + Len(pat) - 1 <= Len(s)
    /\ \A j \in 1..Len(pat) : s[i + j - 1] = pat[j]

\* the least index of a set of indices, 0 when there is none
FirstOf(hits) == IF hits = {} THEN 0 ELSE CHOOSE i \in hits : \A j \in hits : i <= j

FindFrom(s, pat, from) == FirstOf({i \in from..Len(s) : MatchAt(s, i, pat)})

Find(s, pat) == FindFrom(s, pat, 1)

CRLFCRLF == <<CR, LF, CR, LF>>
LFLF == <<LF, LF>>
CRLF == <<CR, LF>>
ZERO == HEX(0, 1)

(***************************************************************************)
(* HttpRequest                                                             *)
(***************************************************************************)
HdrNames == {"connection", "content-length", "transfer-encoding", "host", "upgrade",
             "sec-websocket-key", "sec-websocket-version"}
NoHdr == [has |-> FALSE, v |-> "", n |-> 0]
NoHeaders == [h \in HdrNames |-> NoHdr]

\* ::tolower over the strings the model uses
ToLower(s) ==
    CASE s = "Connection" -> "connection"
      [] s = "Content-Length" -> "content-length"
      [] s = "Transfer-Encoding" -> "transfer-encoding"
      [] s = "Host" -> "host"
      [] s = "Upgrade" -> "upgrade"
      [] s = "Sec-WebSocket-Key" -> "sec-websocket-key"
      [] s = "Sec-WebSocket-Version" -> "sec-websocket-version"
      [] s = "Keep-Alive" -> "keep-alive"
      [] s = "Close" -> "close"
      [] OTHER -> s

string_to_method(m) ==
    IF m \in {"GET", "POST", "PUT", "DELETE", "HEAD", "OPTIONS", "PATCH"} THEN m ELSE "UNKNOWN"

is_valid_http_version(v) == v = "HTTP/1.0" \/ v = "HTTP/1.1"

\* the part of the target before the first '?'
PathOf(target) ==
    CASE target = "/hello?x=1" -> "/hello"
      [] target = "?x=1" -> ""
      [] OTHER -> target

EmptyRequest ==
    [ok |-> TRUE, method |-> "UNKNOWN", path |-> "", version |-> "",
     headers |-> NoHeaders, body |-> <<>>]
Nullopt ==
    [ok |-> FALSE, method |-> "UNKNOWN", path |-> "", version |-> "",
     headers |-> NoHeaders, body |-> <<>>]

\* std::getline over a token sequence: the lines between the LFs
RECURSIVE Lines(_)
\* the lines of s, whose first LF is at i (0: none)
LinesAt(s, i) == IF i = 0 THEN <<s>> ELSE <<Take(s, i - 1)>> \o Lines(Drop(s, i))

Lines(s) == IF s = <<>> THEN <<>> ELSE LinesAt(s, Find(s, <<LF>>))

PopCR(line) ==
    IF line # <<>> /\ line[Len(line)] = CR THEN Take(line, Len(line) - 1) ELSE line

\* iss >> method >> target >> version: three words, or nothing is set
parse_request_line(req, line) ==
    IF line = <<>> \/ line[1].t # "RL" \/ line[1].b = "" THEN req
    ELSE LET rl == line[1]
             clean == Len(line) = 1 \/ line[2].t = "CR"
         IN [req EXCEPT !.method = string_to_method(rl.a),
                        !.version = IF clean THEN rl.c ELSE "junk",
                        !.path = PathOf(rl.b)]

\* name ':' value; a line without ':' is dropped
parse_header_line(req, line) ==
    IF line = <<>> \/ line[1].t # "HDR" THEN req
    ELSE LET h == line[1]
             name == ToLower(h.a)
             val == IF Len(line) = 1 THEN h.b ELSE "junk"
         IN IF name \in HdrNames
            THEN [req EXCEPT !.headers[name] = [has |-> TRUE, v |-> val, n |-> h.n]]
            ELSE req

RECURSIVE parse_header_lines(_, _)
parse_header_lines(req, lines) ==
    IF lines = <<>> THEN req
    ELSE LET line == PopCR(Head(lines))
         IN parse_header_lines(IF line = <<>> THEN req ELSE parse_header_line(req, line),
                               Tail(lines))

get_header(req, name) == req.headers[ToLower(name)]

content_length(req) ==
    LET h == get_header(req, "content-length") IN IF h.has THEN h.n ELSE 0

\* value.find("chunked") != npos
ContainsChunked(v) == v \in {"chunked", "gzip, chunked"}

is_chunked(req) ==
    LET te == get_header(req, "transfer-encoding") IN te.has /\ ContainsChunked(te.v)

is_keep_alive(req) ==
    LET c == get_header(req, "connection")
    IN IF c.has THEN ToLower(c.v) = "keep-alive" ELSE req.version = "HTTP/1.1"

\* the first nbytes bytes of s; a filler run is cut where needed
RECURSIVE TakeBytes(_, _)
TakeBytes(s, nbytes) ==
    IF nbytes <= 0 \/ s = <<>> THEN <<>>
    ELSE IF Head(s).sz <= nbytes THEN <<Head(s)>> \o TakeBytes(Tail(s), nbytes - Head(s).sz)
    ELSE IF Head(s).t = "FILL" THEN <<FILL(nbytes)>>
    ELSE <<>>

\* the number of leading tokens of s that make exactly nbytes bytes, or -1
RECURSIVE TokensFor(_, _)
TokensFor(s, nbytes) ==
    IF nbytes = 0 THEN 0
    ELSE IF s = <<>> \/ Head(s).sz > nbytes THEN -1
    ELSE LET r == TokensFor(Tail(s), nbytes - Head(s).sz)
         IN IF r < 0 THEN -1 ELSE r + 1

(***************************************************************************)
(* HttpRequest::parse_chunked_body: [ok, body].  pos is a token index into *)
(* body_view (1-based); total is total_body_size.                          *)
(***************************************************************************)
RECURSIVE chunk_loop(_, _, _, _)
\* the chunk data at token dpos: k tokens make chunk_size bytes (k < 0: they
\* end inside a token), then CRLF
chunk_data(bv, total, acc, chunk_size, dpos, k) ==
    IF total + chunk_size > MAX_BODY_SIZE THEN [ok |-> FALSE, body |-> <<>>]
    ELSE IF chunk_size > Size(Drop(bv, dpos - 1)) THEN [ok |-> FALSE, body |-> <<>>]
    ELSE IF k < 0 \/ ~MatchAt(bv, dpos + k, CRLF) THEN [ok |-> FALSE, body |-> <<>>]
    ELSE chunk_loop(bv, dpos + k + 2, total + chunk_size,
                    acc \o SubSeq(bv, dpos, dpos + k - 1))

\* the chunk size line at token pos, ending at line_end
chunk_size_line(bv, pos, total, acc, line_end) ==
    IF line_end = 0 THEN [ok |-> FALSE, body |-> <<>>]
    ELSE IF line_end = pos \/ bv[pos].t # "HEX" THEN [ok |-> FALSE, body |-> <<>>]
    ELSE IF bv[pos].n = 0 THEN [ok |-> TRUE, body |-> acc]
    ELSE chunk_data(bv, total, acc, bv[pos].n, line_end + 2,
                    TokensFor(Drop(bv, line_end + 1), bv[pos].n))

chunk_loop(bv, pos, total, acc) ==
    IF pos > Len(bv) THEN [ok |-> TRUE, body |-> acc]
    ELSE chunk_size_line(bv, pos, total, acc, FindFrom(bv, CRLF, pos))

parse_chunked_body(bv) == chunk_loop(bv, 1, 0, <<>>)

(***************************************************************************)
(* HttpRequest::parse                                                      *)
(***************************************************************************)
HeaderEnd(raw) ==
    IF Find(raw, CRLFCRLF) # 0 THEN Find(raw, CRLFCRLF) ELSE Find(raw, LFLF)

BodyStart(raw, header_end_pos) ==
    IF Find(raw, CRLFCRLF) # 0 THEN header_end_pos + 4 ELSE header_end_pos + 2

\* the end of parse: is_valid_
parse_valid(request) ==
    IF /\ request.method # "UNKNOWN"
       /\ request.path # ""
       /\ is_valid_http_version(request.version)
    THEN request ELSE Nullopt

\* the chunked branch of the body parsing; ch is what parse_chunked_body gave
parse_body_chunked(request, ch) ==
    IF ~ch.ok THEN Nullopt ELSE parse_valid([request EXCEPT !.body = ch.body])

\* the Content-Length branch of the body parsing
parse_body_length(request, body_view, cl) ==
    IF cl > 0 /\ Size(body_view) < cl THEN Nullopt
    ELSE IF cl > MAX_BODY_SIZE THEN Nullopt
    ELSE IF cl > 0 THEN parse_valid([request EXCEPT !.body = TakeBytes(body_view, cl)])
    ELSE parse_valid(request)

\* the body parsing of parse
parse_body(request, body_view) ==
    IF is_chunked(request) THEN parse_body_chunked(request, parse_chunked_body(body_view))
    ELSE parse_body_length(request, body_view, content_length(request))

\* the request line and header lines of parse, then the body
parse_lines(raw, header_end_pos, lines) ==
    IF lines = <<>> THEN Nullopt
    ELSE parse_body(parse_header_lines(parse_request_line(EmptyRequest, PopCR(Head(lines))),
                                       Tail(lines)),
                    Drop(raw, BodyStart(raw, header_end_pos) - 1))

\* parse from the header terminator found at header_end_pos on
parse_headers(raw, header_end_pos) ==
    IF header_end_pos = 0 THEN Nullopt
    ELSE parse_lines(raw, header_end_pos, Lines(Take(raw, header_end_pos - 1)))

parse(raw) == IF raw = <<>> THEN Nullopt ELSE parse_headers(raw, HeaderEnd(raw))

(***************************************************************************)
(* HttpResponse.  The body is its length in bytes and a tag naming the     *)
(* text; stream_len is the length of the string the body stream reads.     *)
(***************************************************************************)
\* HttpResponse(status): set_default_headers gives Content-Length: 0
NewResponse(status) ==
    [status |-> status, content_length |-> 0, connection |-> "", body |-> 0, tag |-> "",
     has_stream |-> FALSE, stream_len |-> 0, xhdrs |-> {}]

set_header_x(r, name) == [r EXCEPT !.xhdrs = @ \cup {name}]

set_body(r, len, tag) ==
    [r EXCEPT !.body = len, !.tag = tag, !.has_stream = TRUE, !.stream_len = len,
              !.content_length = len]

set_text(r, len, tag) == set_body(r, len, tag)
set_html(r, len, tag) == set_body(r, len, tag)

\* the file is read into body_content_; body_stream_ is left alone
set_file_content(r, len, tag) ==
    [r EXCEPT !.body = len, !.tag = tag, !.content_length = len]

set_keep_alive(r) == [r EXCEPT !.connection = "keep-alive"]

\* the bytes of to_http_string(): one header block, then body_content_
to_http_string(r) == [hdr |-> 1, body |-> r.body]

(***************************************************************************)
(* The state: one Connection and its peer, and the HttpServer.             *)
(***************************************************************************)
VARIABLES
    wire,           \* the segments the peer has yet to send
    request_data,   \* request_data_
    stage,          \* "new", "reading", "writing_headers", "writing_body", "closed"
    timer_armed,    \* timeout_timer_ has a wait pending
    deadline,       \* expiry of timeout_timer_
    now,            \* the clock, in seconds
    last_rx,        \* when bytes were last received
    closed_by,      \* "none", "timeout", "error", "close"
    response,       \* the response being written
    stream_pos,     \* read position of the response's body stream
    pending,        \* body bytes of the chunk write in flight
    sent,           \* [hdr, body]: what has been written of the response
    log,            \* handler calls and completed responses, in order
    middleware_,    \* HttpServer::middleware_
    r_out,          \* the call of HttpServer::handle_request the last step made: [chain, request, response, calls]
    h_out,          \* the call of the request handler of handle_accept the last step made
    route_order,    \* the order in which a loop over routes_ meets the wildcard routes
    running_,               \* HttpServer::running_
    max_connections,        \* ServerConfig::max_connections
    active_connections,     \* Statistics::active_connections
    total_connections,      \* Statistics::total_connections
    accept_pending,         \* an async_accept on acceptor_ is outstanding
    io_stopped,             \* io_context_.stop() was called: no handler runs any more
    connections,            \* the Connection objects made by handle_accept: "open", "closed", "destroyed"
    config_,                \* RateLimiter::config_
    buckets_,               \* TokenBucketLimiter::buckets_
    windows_,               \* FixedWindowLimiter::windows_
    request_logs_,          \* SlidingWindowLimiter::request_logs_
    clock,                  \* std::chrono::steady_clock, in ticks
    checks,                 \* per key, the checks made and what each returned
    m_out,                  \* the call of the rate-limit middleware the last step made
    ws,                     \* a WebSocketConnection: its members, its socket and timers
    chunked,                \* a chunked request: the parts of its body, what parse made of it
    pool,                   \* a ThreadPool: its members, its workers, the caller of shutdown
    rate_limiter            \* a RateLimiter: its algorithm objects, its cleanup thread, its callers

(***************************************************************************)
(* HttpServer: routes, middleware, static files.                           *)
(***************************************************************************)
\* lengths of the texts the server writes
LenNotFound == 164
LenFileNotFound == 160
LenAccessDenied == 159
LenListingDisabled == 172
LenInternal == 197
LenInvalid == 20
LenTooLarge == 24
LenWsFailed == 26

\* routes_: (path, method) -> handler; a handler is what the user function does
Routes ==
    { [path |-> "/hello", method |-> "GET", kind |-> "text", len |-> 5, tag |-> "Hello"],
      [path |-> "/big", method |-> "GET", kind |-> "text", len |-> 20000, tag |-> "Big"],
      [path |-> "/boom", method |-> "GET", kind |-> "throw", len |-> 0, tag |-> "boom"],
      [path |-> "/api/*", method |-> "GET", kind |-> "text", len |-> 5, tag |-> "Api"],
      [path |-> "/api/x*", method |-> "GET", kind |-> "text", len |-> 5, tag |-> "ApiX"] }

\* the order of the add_route calls, by path
Registration == <<"/hello", "/big", "/boom", "/api/*", "/api/x*">>

\* the routes whose pattern ends with "*"
WildcardRoutes == {h \in Routes : h.path \in {"/api/*", "/api/x*"}}

\* the orders in which a loop over the unordered_map routes_ can meet them
RouteOrders ==
    {o \in [1..Cardinality(WildcardRoutes) -> WildcardRoutes] :
       \A h \in WildcardRoutes : \E i \in DOMAIN o : o[i] = h}

WebSocketRoutes == {"/ws"}

\* the file system: a path is the sequence of its components from "/"
Files ==
    { [at |-> <<"var", "www", "file.txt">>, len |-> 18, tag |-> "file"],
      [at |-> <<"var", "www-secret", "key.txt">>, len |-> 7, tag |-> "key"],
      [at |-> <<"etc", "passwd">>, len |-> 30, tag |-> "passwd"] }

Directories == { <<>>, <<"var">>, <<"var", "www">>, <<"var", "www", "docs">>,
                 <<"var", "www-secret">>, <<"etc">> }

\* std::filesystem::canonical(config_.document_root)
document_root == <<"var", "www">>

\* pattern.ends_with("*") and path.starts_with(prefix), over the paths of the model
path_matches(pattern, path) ==
    \/ pattern = path
    \/ pattern = "/api/*" /\ path \in {"/api/", "/api/x"}
    \/ pattern = "/api/x*" /\ path \in {"/api/x"}

create_error_response(status, len, tag) == set_html(NewResponse(status), len, tag)

\* a route handler: the response it returns, or the exception it throws
CallHandler(h) ==
    IF h.kind = "throw" THEN [threw |-> TRUE, response |-> NewResponse(200)]
    ELSE [threw |-> FALSE, response |-> set_text(NewResponse(200), h.len, h.tag)]

\* request.path().substr(1) as a relative path, for the targets of the model
RelativePath(path) ==
    CASE path = "/file.txt" -> <<"file.txt">>
      [] path = "/docs" -> <<"docs">>
      [] path = "/../www-secret/key.txt" -> <<"..", "www-secret", "key.txt">>
      [] path = "/../../etc/passwd" -> <<"..", "..", "etc", "passwd">>
      [] OTHER -> <<path>>

\* std::filesystem::weakly_canonical of an absolute path without symlinks:
\* a ".." takes the component before it away
RECURSIVE weakly_canonical(_, _)
weakly_canonical(done, todo) ==
    IF todo = <<>> THEN done
    ELSE IF Head(todo) = ".."
    THEN weakly_canonical(IF done = <<>> THEN <<>> ELSE Take(done, Len(done) - 1), Tail(todo))
    ELSE weakly_canonical(Append(done, Head(todo)), Tail(todo))

\* a.starts_with(b) for two file names of the model
NameStartsWith(a, b) == a = b \/ (a = "www-secret" /\ b = "www")

\* std::string::starts_with on the strings of two paths: the components of
\* root but the last are those of path, and the last is the start of a name
StringStartsWith(path, root) ==
    /\ Len(path) >= Len(root)
    /\ \A i \in 1..(Len(root) - 1) : path[i] = root[i]
    /\ root # <<>> => NameStartsWith(path[Len(root)], root[Len(root)])

\* HttpResponse::conditional_file_response for a request without conditions
conditional_file_response(f) ==
    set_header_x(set_header_x(set_file_content(NewResponse(200), f.len, f.tag),
                              "ETag"), "Last-Modified")

\* handle_static_file from the canonical requested path on
static_file_at(canonical_requested) ==
    IF ~StringStartsWith(canonical_requested, document_root)
    THEN create_error_response(403, LenAccessDenied, "Access denied")
    ELSE IF canonical_requested \in Directories
    THEN create_error_response(403, LenListingDisabled, "Directory listing disabled")
    ELSE IF ~\E f \in Files : f.at = canonical_requested
    THEN create_error_response(404, LenFileNotFound, "File not found")
    ELSE conditional_file_response(CHOOSE f \in Files : f.at = canonical_requested)

\* HttpServer::handle_static_file
handle_static_file(req) ==
    static_file_at(weakly_canonical(<<>>, document_root \o RelativePath(req.path)))

\* the headers of a set of names, set one after the other
RECURSIVE set_headers_x(_, _)
set_headers_x(r, names) ==
    IF names = {} THEN r
    ELSE set_headers_x(set_header_x(r, CHOOSE n \in names : TRUE),
                       names \ {CHOOSE n \in names : TRUE})

\* a middleware is [stop, status, hdrs]: it may set a status and body, may set
\* headers, and returns continue (TRUE) or stop (FALSE)
CallMiddleware(m, resp) ==
    [continue |-> ~m.stop,
     response |-> set_headers_x(IF m.status # 0
                                THEN set_text([resp EXCEPT !.status = m.status], 2, "mw")
                                ELSE resp,
                                m.hdrs)]

\* the loop without the early return
RECURSIVE RunMiddlewareNoReturn(_, _, _, _)
RunMiddlewareNoReturn(chain, i, resp, calls) ==
    IF i > Len(chain) THEN [stopped |-> FALSE, response |-> resp, calls |-> calls]
    ELSE LET res == CallMiddleware(chain[i], resp)
         IN RunMiddlewareNoReturn(chain, i + 1, res.response,
                                  Append(calls, [k |-> "mw", i |-> i]))

\* the middleware loop of handle_request, from middleware i on
RECURSIVE RunMiddleware(_, _, _, _)
RunMiddleware(chain, i, resp, calls) ==
    IF i > Len(chain) THEN [stopped |-> FALSE, response |-> resp, calls |-> calls]
    ELSE LET res == CallMiddleware(chain[i], resp)
             calls2 == Append(calls, [k |-> "mw", i |-> i])
         IN IF ~res.continue
            THEN [stopped |-> TRUE, response |-> res.response, calls |-> calls2]
            ELSE RunMiddleware(chain, i + 1, res.response, calls2)

ExactRoutes(req) == {h \in Routes : h.path = req.path /\ h.method = req.method}
PatternRoutes(req) == {h \in Routes : h.method = req.method /\ path_matches(h.path, req.path)}

\* the first route the loop over routes_ finds to match
FirstMatch(req) ==
    route_order[FirstOf({i \in DOMAIN route_order :
                           /\ route_order[i].method = req.method
                           /\ path_matches(route_order[i].path, req.path)})]

serve_static_files == TRUE

\* HttpServer::handle_request: [response, calls]
handle_request(req, chain) ==
    LET mw == RunMiddleware(chain, 1, NewResponse(200), <<>>)
        h == IF ExactRoutes(req) # {} THEN CHOOSE x \in ExactRoutes(req) : TRUE
             ELSE FirstMatch(req)
        found == ExactRoutes(req) # {} \/ PatternRoutes(req) # {}
        out == CallHandler(h)
    IN IF mw.stopped THEN [response |-> mw.response, calls |-> mw.calls]
       ELSE IF found
            THEN [response |-> IF out.threw
                               THEN create_error_response(500, LenInternal, h.tag)
                               ELSE out.response,
                  calls |-> Append(mw.calls, [k |-> "route", i |-> 0])]
       ELSE IF serve_static_files /\ req.method = "GET"
            THEN [response |-> handle_static_file(req),
                  calls |-> Append(mw.calls, [k |-> "static", i |-> 0])]
       ELSE [response |-> create_error_response(404, LenNotFound, "Resource not found"),
             calls |-> mw.calls]

\* WebSocketUtils::is_websocket_request
is_websocket_request(req) ==
    /\ get_header(req, "Upgrade").has /\ get_header(req, "Upgrade").v = "websocket"
    /\ get_header(req, "Connection").has
    /\ get_header(req, "Connection").v \in {"Upgrade", "keep-alive, Upgrade"}

\* WebSocketUtils::validate_websocket_version
validate_websocket_version(req) ==
    get_header(req, "Sec-WebSocket-Version").has /\ get_header(req, "Sec-WebSocket-Version").v = "13"

\* WebSocketUtils::validate_websocket_key: the base64 decoding is 16 bytes long
validate_websocket_key(key) == key = "dGhlIHNhbXBsZSBub25jZQ=="

\* the checks of WebSocketConnection::handshake
handshake(req) ==
    /\ is_websocket_request(req)
    /\ validate_websocket_version(req)
    /\ get_header(req, "Sec-WebSocket-Key").has
    /\ validate_websocket_key(get_header(req, "Sec-WebSocket-Key").v)

create_handshake_rejection == set_header_x(set_text(NewResponse(400), LenWsFailed, "ws failed"),
                                           "X-WebSocket-Reject-Reason")

create_handshake_response(req) ==
    IF ~get_header(req, "Sec-WebSocket-Key").has THEN create_handshake_rejection
    ELSE [set_header_x(set_header_x(NewResponse(101), "Upgrade"), "Sec-WebSocket-Accept")
            EXCEPT !.connection = "Upgrade"]

handle_websocket_upgrade_response(req) ==
    IF \E p \in WebSocketRoutes : path_matches(p, req.path)
    THEN create_handshake_response(req)
    ELSE create_handshake_rejection

\* the request handler HttpServer::handle_accept gives every Connection
ServerHandler(req, chain) ==
    IF is_websocket_request(req)
    THEN [response |-> handle_websocket_upgrade_response(req), calls |-> <<>>]
    ELSE handle_request(req, chain)

(***************************************************************************)
(* The peer: the bytes it will send, and how a read cuts them.             *)
(***************************************************************************)
RECURSIVE HdrLines(_)
HdrLines(hdrs) == IF hdrs = <<>> THEN <<>> ELSE <<Head(hdrs), CR, LF>> \o HdrLines(Tail(hdrs))

RECURSIVE HdrLinesBefore(_)
HdrLinesBefore(hdrs) ==
    IF hdrs = <<>> THEN <<>> ELSE <<CR, LF, Head(hdrs)>> \o HdrLinesBefore(Tail(hdrs))

\* request line CRLF, header lines CRLF, CRLF, body
Std(rl, hdrs, body) == <<rl, CR, LF>> \o HdrLines(hdrs) \o <<CR, LF>> \o body
\* the header lines end in LF LF, and CRLF CRLF follows
Odd(rl, hdrs, body) == <<rl>> \o HdrLinesBefore(hdrs) \o <<LF, LF, CR, LF, CR, LF>> \o body

Host == HDR("Host", "x", 0)
Get(target) == RL("GET", target, "HTTP/1.1")
Chunked == HDR("Transfer-Encoding", "chunked", 0)
Chunks5 == <<HEX(5, 1), CR, LF, FILL(5), CR, LF, ZERO, CR, LF, CR, LF>>

\* requests after which the connection goes on reading
FirstRequests ==
    { Odd(Get("/hello"), <<>>, <<>>),
      Odd(Get("/boom"), <<>>, <<>>) }

LastRequests ==
    { Std(Get("/hello"), <<Host>>, <<>>),
      Std(RL("BREW", "/hello", "HTTP/1.1"), <<Host>>, <<>>),
      Std(RL("GET", "/hello", "HTTP/2.0"), <<Host>>, <<>>),
      Std(Get("?x=1"), <<Host>>, <<>>),
      Std(RL("POST", "/hello", "HTTP/1.1"), <<HDR("Content-Length", "5", 5)>>, <<FILL(5)>>),
      Std(RL("POST", "/hello", "HTTP/1.1"), <<Chunked>>, Chunks5),
      <<Get("/hello"), LF, Host, LF, LF>>,
      Odd(RL("POST", "/hello", "HTTP/1.1"), <<Chunked>>, Chunks5),
      Odd(Get("/hello"), <<HDR("Connection", "close", 0)>>, <<>>),
      Odd(RL("GET", "/hello", "HTTP/1.0"), <<>>, <<>>),
      Odd(RL("GET", "/hello", "HTTP/1.0"), <<HDR("Connection", "Keep-Alive", 0)>>, <<>>),
      Odd(Get("/file.txt"), <<>>, <<>>),
      Odd(Get("/hello"), <<HDR("Connection", "Upgrade", 0)>>, <<>>),
      Odd(Get("/missing"), <<>>, <<>>),
      Odd(Get("/big"), <<>>, <<>>),
      Odd(Get("/api/x"), <<>>, <<>>),
      Odd(RL("BREW", "/hello", "HTTP/1.1"), <<>>, <<>>),
      <<Get("/hello"), LF, LF, HDR("Content-Length", "5", 5), CR, LF, CR, LF>>,
      <<RL("POST", "/hello", "HTTP/1.1"), CR, LF, HDR("Content-Length", "5", 5), LF, LF,
        FILL(5), CR, LF, CR, LF, FILL(5)>>,
      Odd(Get("/ws"), <<HDR("Upgrade", "websocket", 0), HDR("Connection", "Upgrade", 0),
                        HDR("Sec-WebSocket-Key", "dGhlIHNhbXBsZSBub25jZQ==", 0)>>, <<>>) }

\* the peer sends a request in two segments
Segments(req) == <<Take(req, 2), Drop(req, 2)>>

\* streams that grow the buffer past MAX_REQUEST_SIZE
BigStreams ==
    { << <<FILL(MAX_REQUEST_SIZE + BUFFER_SIZE)>> >>,
      << Std(Get("/hello"), <<Host>>, <<>>), <<FILL(MAX_REQUEST_SIZE)>> >>,
      << Std(RL("POST", "/hello", "HTTP/1.1"), <<Chunked>>,
             <<HEX(MAX_REQUEST_SIZE - 2, 5), CR, LF>>),
         <<FILL(MAX_REQUEST_SIZE - 2)>>, <<CR, LF>> >>,
      << Std(RL("POST", "/hello", "HTTP/1.1"), <<HDR("Content-Length", "2000000", 2000000)>>,
             <<>>),
         <<FILL(MAX_REQUEST_SIZE)>> >> }

RECURSIVE StreamsOf(_)
StreamsOf(n) ==
    IF n = 0 THEN {<<>>}
    ELSE LET shorter == StreamsOf(n - 1)
         IN shorter \cup {Segments(a) \o b : a \in FirstRequests, b \in shorter}

\* what the peer may send on one connection: a sequence of segments
Scripts ==
    LET heads == StreamsOf(MaxRequests - 1)
    IN {a \o Segments(b) : a \in heads, b \in FirstRequests \cup LastRequests} \cup BigStreams

RECURSIVE Flatten(_)
Flatten(segs) == IF segs = <<>> THEN <<>> ELSE Append2(Head(segs), Flatten(Tail(segs)))

\* one async_read_some into buffer_: [bytes, rest]; a read takes whole
\* segments that fit the buffer, or a buffer full of a longer filler run
ReadChoices(w) ==
    IF w = <<>> THEN {}
    ELSE IF w[1][1].t = "FILL" /\ w[1][1].n > BUFFER_SIZE
    THEN {[bytes |-> <<FILL(BUFFER_SIZE)>>,
           rest |-> << <<FILL(w[1][1].n - BUFFER_SIZE)>> >> \o Tail(w)]}
    ELSE {[bytes |-> Flatten(Take(w, k)), rest |-> Drop(w, k)] :
            k \in {j \in 1..Len(w) : Size(Flatten(Take(w, j))) <= BUFFER_SIZE}}

(***************************************************************************)
(* Connection                                                              *)
(***************************************************************************)
conn_vars == <<wire, request_data, stage, timer_armed, deadline, now, last_rx, closed_by,
               response, stream_pos, pending, sent, log>>

NoResponse == [NewResponse(0) EXCEPT !.tag = "none"]
Min(a, b) == IF a < b THEN a ELSE b

\* is_request_complete from the temporary parse on
body_complete(data, temp_request, body_start_pos) ==
    IF ~temp_request.ok THEN FALSE
    ELSE IF is_chunked(temp_request)
         THEN \/ Find(data, <<CR, LF, ZERO, CR, LF, CR, LF>>) # 0
              \/ Find(data, <<LF, ZERO, CR, LF, CR, LF>>) # 0
    ELSE Size(data) - Size(Take(data, body_start_pos - 1)) >= content_length(temp_request)

\* is_request_complete from the header terminator found at header_end_pos on
headers_complete(data, header_end_pos) ==
    IF header_end_pos = 0 THEN FALSE
    ELSE body_complete(data, parse(Take(data, header_end_pos - 1)),
                       BodyStart(data, header_end_pos))

\* Connection::is_request_complete
is_request_complete(data) == headers_complete(data, HeaderEnd(data))

\* the request handlers called so far on this connection
Handled == Cardinality({i \in 1..Len(log) : log[i].e = "handler"})

\* Connection::close
close(why) ==
    /\ stage' = "closed"
    /\ timer_armed' = FALSE
    /\ closed_by' = why

\* Connection::setup_timeout
setup_timeout ==
    /\ timer_armed' = TRUE
    /\ deadline' = now + TIMEOUT

\* send_response that starts the next read at once
send_response_and_read(resp) ==
    /\ response' = resp
    /\ stage' = "reading"
    /\ stream_pos' = 0
    /\ pending' = 0
    /\ sent' = [hdr |-> 0, body |-> 0]

\* Connection::send_response: the header block and body_content_ go out in one write
send_response(resp) ==
    /\ response' = resp
    /\ stage' = "writing_headers"
    /\ stream_pos' = 0
    /\ pending' = 0
    /\ sent' = [hdr |-> 0, body |-> 0]

\* request_handler_ has returned resp for request: the call is logged
handled(request, resp) ==
    [response |-> resp,
     log |-> Append(log, [e |-> "handler", id |-> Handled + 1, path |-> request.path,
                          status |-> resp.status])]

\* the keep-alive header process_request adds to the handler's response
with_keep_alive(request, resp) ==
    IF is_keep_alive(request) /\ resp.connection = "" THEN set_keep_alive(resp) ELSE resp

\* process_request from the parse on
process_parsed(request_opt) ==
    IF ~request_opt.ok
    THEN [response |-> set_text(NewResponse(400), LenInvalid, "Invalid HTTP request"),
          log |-> log]
    ELSE handled(request_opt,
                 with_keep_alive(request_opt, ServerHandler(request_opt, middleware_).response))

\* Connection::process_request: [response, log]
process_request(data) == process_parsed(parse(data))

\* the keep_alive flag of handle_write
keep_alive(request_opt) == request_opt.ok /\ is_keep_alive(request_opt)

\* handle_write that keeps the buffer of the request just answered
handle_write_keeps_buffer(sent_now) ==
    /\ sent' = sent_now
    /\ log' = Append(log, [e |-> "written", id |-> Handled, path |-> "",
                           status |-> response.status])
    /\ pending' = 0
    /\ UNCHANGED <<response, stream_pos>>
    /\ IF keep_alive(parse(request_data))
       THEN /\ setup_timeout
            /\ stage' = "reading"
            /\ UNCHANGED <<request_data, closed_by>>
       ELSE /\ close("close")
            /\ UNCHANGED <<request_data, deadline>>

\* Connection::handle_write, after the last write of a response
handle_write(sent_now) ==
    /\ sent' = sent_now
    /\ log' = Append(log, [e |-> "written", id |-> Handled, path |-> "",
                           status |-> response.status])
    /\ pending' = 0
    /\ UNCHANGED <<response, stream_pos>>
    /\ IF keep_alive(parse(request_data))
       THEN /\ request_data' = <<>>
            /\ setup_timeout
            /\ stage' = "reading"
            /\ UNCHANGED closed_by
       ELSE /\ close("close")
            /\ UNCHANGED <<request_data, deadline>>

\* Connection::write_body_chunk
write_body_chunk(sent_now) ==
    LET bytes_read == Min(STREAM_CHUNK, response.stream_len - stream_pos)
    IN IF bytes_read > 0
       THEN /\ stage' = "writing_body"
            /\ pending' = bytes_read
            /\ stream_pos' = stream_pos + bytes_read
            /\ sent' = sent_now
            /\ UNCHANGED <<request_data, timer_armed, deadline, closed_by, response, log>>
       ELSE handle_write(sent_now)

\* Connection::start
Start ==
    /\ stage = "new"
    /\ setup_timeout
    /\ stage' = "reading"
    /\ UNCHANGED <<wire, request_data, now, last_rx, closed_by, response, stream_pos,
                   pending, sent, log>>

\* handle_read hands the complete request to process_request and sends its answer
answer(pr) ==
    /\ timer_armed' = FALSE
    /\ send_response(pr.response)
    /\ log' = pr.log
    /\ UNCHANGED deadline

\* handle_read, when request_data_ has grown to data
handle_read(data) ==
    /\ request_data' = data
    /\ IF Size(data) > MAX_REQUEST_SIZE
       THEN /\ send_response(set_text(NewResponse(413), LenTooLarge,
                                      "Request entity too large"))
            /\ UNCHANGED <<timer_armed, deadline, log>>
       ELSE IF is_request_complete(data)
       THEN answer(process_request(data))
       ELSE UNCHANGED <<stage, timer_armed, deadline, response, stream_pos,
                        pending, sent, log>>

\* Connection::handle_read without error
HandleRead ==
    /\ stage = "reading"
    /\ \E c \in ReadChoices(wire) :
         /\ wire' = c.rest
         /\ handle_read(Append2(request_data, c.bytes))
    /\ last_rx' = now
    /\ UNCHANGED <<now, closed_by>>

\* the completion of the write send_response started
WriteHeadersDone ==
    /\ stage = "writing_headers"
    /\ LET sent_now == [hdr |-> sent.hdr + to_http_string(response).hdr,
                        body |-> sent.body + to_http_string(response).body]
       IN IF response.has_stream
          THEN write_body_chunk(sent_now)
          ELSE handle_write(sent_now)
    /\ UNCHANGED <<wire, now, last_rx>>

\* the completion of a write write_body_chunk started
WriteBodyDone ==
    /\ stage = "writing_body"
    /\ write_body_chunk([sent EXCEPT !.body = @ + pending])
    /\ UNCHANGED <<wire, now, last_rx>>

\* a read or a write completes with an error: handle_error
IoError ==
    /\ stage \in {"reading", "writing_headers", "writing_body"}
    /\ close("error")
    /\ UNCHANGED <<wire, request_data, deadline, now, last_rx, response, stream_pos,
                   pending, sent, log>>

\* Connection::handle_timeout, the wait was not cancelled
HandleTimeout ==
    /\ timer_armed
    /\ now >= deadline
    /\ stage # "closed"
    /\ close("timeout")
    /\ UNCHANGED <<wire, request_data, deadline, now, last_rx, response, stream_pos,
                   pending, sent, log>>

\* time passes; an expired timer fires before more time passes
Tick ==
    /\ stage \notin {"new", "closed"}
    /\ ~(timer_armed /\ now >= deadline)
    /\ now + TickStep <= MaxTime
    /\ now' = now + TickStep
    /\ UNCHANGED <<wire, request_data, stage, timer_armed, deadline, last_rx, closed_by,
                   response, stream_pos, pending, sent, log>>

ConnInit ==
    /\ wire \in Scripts
    /\ request_data = <<>>
    /\ stage = "new"
    /\ timer_armed = FALSE
    /\ deadline = 0
    /\ now = 0
    /\ last_rx = 0
    /\ closed_by = "none"
    /\ response = NoResponse
    /\ stream_pos = 0
    /\ pending = 0
    /\ sent = [hdr |-> 0, body |-> 0]
    /\ log = <<>>

NoCall == [chain |-> <<>>, request |-> Nullopt, response |-> NoResponse, calls |-> <<>>]

(***************************************************************************)
(* RateLimiter: the three algorithms and the cleanup thread.               *)
(***************************************************************************)
\* the last early instant of the steady clock, in ticks
MaxClock == 1

\* the number of instants the clock has past the first hour, less one
MaxLate == 0

\* the most checks made in a behaviour
MaxChecks == 3

\* the largest max_requests and burst_capacity of a configuration
MaxRate == 2

\* the longest short window_duration of a configuration, in seconds
MaxWindow == 1

\* the resolution of the clock: std::chrono::seconds counts whole pairs of ticks
TicksPerSecond == 2

\* a window_duration of two hours, in seconds
LongWindow == 2 * 60 * 60

\* std::chrono::hours(1), in ticks
Hour == 60 * 60 * TicksPerSecond

\* the first instant past the first hour: 62 minutes
LateStart == 62 * 60 * TicksPerSecond

Instants == (0..MaxClock) \cup {LateStart + i : i \in 0..MaxLate}

Later(t) == {u \in Instants : u > t}

Keys == {"10.0.0.1", "10.0.0.2"}

Strategies == {"TOKEN_BUCKET", "FIXED_WINDOW", "SLIDING_WINDOW"}

\* RateLimitConfig: window_duration in seconds; burst_capacity is read by
\* the token bucket only; custom says that rate_limit_response is set
Configs ==
    { c \in [strategy : Strategies, max_requests : 1..MaxRate,
             window_duration : (1..MaxWindow) \cup {LongWindow},
             burst_capacity : 1..MaxRate, enabled : BOOLEAN, custom : BOOLEAN] :
        /\ c.strategy # "TOKEN_BUCKET" => c.burst_capacity = 1
        /\ ~c.enabled => ~c.custom
        /\ (~c.enabled \/ c.custom)
             => c.max_requests = 1 /\ c.window_duration = 1 /\ c.burst_capacity = 1 }

\* std::chrono::duration_cast to a unit of n ticks: towards zero
DurationCast(d, n) == IF d >= 0 THEN d \div n ELSE 0 - ((0 - d) \div n)

Seconds(d) == DurationCast(d, TicksPerSecond)
Minutes(d) == DurationCast(d, 60 * TicksPerSecond)

\* a second reading of the clock within one call: now or a tick later
Readings(again) ==
    IF again /\ clock + 1 \in Instants THEN {clock, clock + 1} ELSE {clock}

\* the entry of checks a call leaves: the clock readings at and ts, the
\* RateLimitResult, whether the key had no entry, and the refill or window
\* time before and after the call (for the sliding window, since is the
\* number of records the call found in the log)
CheckRecord(at, ts, allowed, remaining, reset_time, fresh, since, start, limit_type) ==
    [at |-> at, ts |-> ts, allowed |-> allowed, remaining |-> remaining,
     reset_time |-> reset_time, fresh |-> fresh, since |-> since, start |-> start,
     limit_type |-> limit_type]

ChecksMade == Len(checks["10.0.0.1"]) + Len(checks["10.0.0.2"])

\* TokenBucketLimiter's members, set by RateLimiter::RateLimiter
capacity_ == config_.burst_capacity
refill_rate_ == config_.max_requests
refill_interval_ == config_.window_duration

NoBucket == [present |-> FALSE, tokens |-> 0, last_refill |-> 0]

\* BucketState(capacity), constructed at clock reading t
BucketState(capacity, t) == [present |-> TRUE, tokens |-> capacity, last_refill |-> t]

\* a limiter in which every key finds the bucket of the first key
find_shared_bucket(key, t) ==
    IF buckets_["10.0.0.1"].present THEN buckets_["10.0.0.1"] ELSE BucketState(capacity_, t)

\* buckets_.find(key), or the bucket emplaced at clock reading t
find_bucket(key, t) ==
    IF buckets_[key].present THEN buckets_[key] ELSE BucketState(capacity_, t)

\* the refill of check_rate_limit
refill(bucket, t, elapsed) ==
    IF elapsed >= refill_interval_
    THEN [bucket EXCEPT !.tokens = Min(capacity_, @ + (elapsed \div refill_interval_) * refill_rate_),
                        !.last_refill = t]
    ELSE bucket

\* a check_rate_limit that takes no token
take_no_token(bucket) == bucket

\* the token a check takes
take_token(bucket) ==
    IF bucket.tokens > 0 THEN [bucket EXCEPT !.tokens = @ - 1] ELSE bucket

\* the RateLimitResult of the token bucket, from the bucket after the refill
token_result(key, t, ts, before, elapsed, bucket) ==
    CheckRecord(t, ts, bucket.tokens > 0, take_token(bucket).tokens,
                IF bucket.tokens > 0 THEN 0
                ELSE refill_interval_ - (elapsed % refill_interval_),
                ~buckets_[key].present, before.last_refill, bucket.last_refill,
                "token_bucket")

token_bucket_refilled(key, t, ts, before, elapsed, bucket) ==
    /\ buckets_' = [buckets_ EXCEPT ![key] = take_token(bucket)]
    /\ checks' = [checks EXCEPT ![key] = Append(@, token_result(key, t, ts, before, elapsed, bucket))]
    /\ clock' = ts

token_bucket_elapsed(key, t, ts, bucket, elapsed) ==
    token_bucket_refilled(key, t, ts, bucket, elapsed, refill(bucket, t, elapsed))

token_bucket_found(key, t, ts, bucket) ==
    token_bucket_elapsed(key, t, ts, bucket, Seconds(t - bucket.last_refill))

\* TokenBucketLimiter::check_rate_limit
TokenBucketCheck ==
    /\ config_.enabled
    /\ config_.strategy = "TOKEN_BUCKET"
    /\ ChecksMade < MaxChecks
    /\ \E key \in Keys : \E ts \in Readings(~buckets_[key].present) :
          token_bucket_found(key, clock, ts, find_bucket(key, ts))
    /\ UNCHANGED <<config_, windows_, request_logs_>>

\* FixedWindowLimiter's members
max_requests_ == config_.max_requests
window_duration_ == config_.window_duration

NoWindow == [present |-> FALSE, count |-> 0, window_start |-> 0]

\* windows_[key]: the window, or WindowState() constructed at clock reading t
find_window(key, t) ==
    IF windows_[key].present THEN windows_[key]
    ELSE [present |-> TRUE, count |-> 0, window_start |-> t]

\* the reset of check_rate_limit
reset_window(window, t, elapsed) ==
    IF elapsed >= window_duration_
    THEN [window EXCEPT !.count = 0, !.window_start = t]
    ELSE window

\* the request a check counts
count_request(window) ==
    IF window.count < max_requests_ THEN [window EXCEPT !.count = @ + 1] ELSE window

\* the RateLimitResult of the fixed window, from the window after the reset
window_result(key, t, ts, before, elapsed, window) ==
    CheckRecord(t, ts, window.count < max_requests_,
                IF window.count < max_requests_ THEN max_requests_ - (window.count + 1) ELSE 0,
                IF window.count < max_requests_ THEN 0 ELSE window_duration_ - elapsed,
                ~windows_[key].present, before.window_start, window.window_start,
                "fixed_window")

fixed_window_reset(key, t, ts, before, elapsed, window) ==
    /\ windows_' = [windows_ EXCEPT ![key] = count_request(window)]
    /\ checks' = [checks EXCEPT ![key] = Append(@, window_result(key, t, ts, before, elapsed, window))]
    /\ clock' = ts

fixed_window_elapsed(key, t, ts, window, elapsed) ==
    fixed_window_reset(key, t, ts, window, elapsed, reset_window(window, t, elapsed))

fixed_window_found(key, t, ts, window) ==
    fixed_window_elapsed(key, t, ts, window, Seconds(t - window.window_start))

\* FixedWindowLimiter::check_rate_limit
FixedWindowCheck ==
    /\ config_.enabled
    /\ config_.strategy = "FIXED_WINDOW"
    /\ ChecksMade < MaxChecks
    /\ \E key \in Keys : \E ts \in Readings(~windows_[key].present) :
          fixed_window_found(key, clock, ts, find_window(key, ts))
    /\ UNCHANGED <<config_, buckets_, request_logs_>>

\* requests.erase(remove_if(... record.timestamp < cutoff ...))
remove_expired(requests, cutoff) == SelectSeq(requests, LAMBDA r : ~(r < cutoff))

\* the timestamp of the oldest record
oldest(requests) ==
    CHOOSE r \in {requests[i] : i \in DOMAIN requests} :
        \A i \in DOMAIN requests : r <= requests[i]

\* the RateLimitResult of the sliding window, from the log after the purge
sliding_result(key, t, ts, requests) ==
    IF Len(requests) < max_requests_
    THEN CheckRecord(t, ts, TRUE, max_requests_ - (Len(requests) + 1), 0,
                     request_logs_[key] = <<>>, Len(request_logs_[key]), 0,
                     "sliding_window")
    ELSE CheckRecord(t, t, FALSE, 0,
                     IF requests = <<>> THEN 0
                     ELSE Seconds(oldest(requests) + window_duration_ * TicksPerSecond - t),
                     request_logs_[key] = <<>>, Len(request_logs_[key]), 0,
                     "sliding_window")

\* check_rate_limit on the log after the purge; ts is the clock reading of
\* the RequestRecord emplaced
sliding_window_purged(key, t, ts, requests) ==
    /\ request_logs_' = [request_logs_ EXCEPT ![key] =
                            IF Len(requests) < max_requests_ THEN Append(requests, ts)
                            ELSE requests]
    /\ checks' = [checks EXCEPT ![key] = Append(@, sliding_result(key, t, ts, requests))]
    /\ clock' = ts

\* the log of key without the records older than the window
current_log(key) ==
    remove_expired(request_logs_[key], clock - window_duration_ * TicksPerSecond)

\* SlidingWindowLimiter::check_rate_limit
SlidingWindowCheck ==
    /\ config_.enabled
    /\ config_.strategy = "SLIDING_WINDOW"
    /\ ChecksMade < MaxChecks
    /\ \E key \in Keys : \E ts \in Readings(Len(current_log(key)) < max_requests_) :
          sliding_window_purged(key, clock, ts, current_log(key))
    /\ UNCHANGED <<config_, buckets_, windows_>>

\* the largest size_t, as far as the model counts
SIZE_MAX == 2147483647

\* RateLimiter::check_request of a disabled limiter
DisabledCheck ==
    /\ ~config_.enabled
    /\ ChecksMade < MaxChecks
    /\ \E key \in Keys :
          checks' = [checks EXCEPT ![key] =
                        Append(@, CheckRecord(clock, clock, TRUE, SIZE_MAX, 0, FALSE, 0, 0,
                                              "disabled"))]
    /\ UNCHANGED <<config_, buckets_, windows_, request_logs_, clock>>

\* what RateLimiter::create_middleware sets when it allows and when it denies
RateLimitAllowHeaders == {"X-RateLimit-Limit", "X-RateLimit-Remaining"}
RateLimitDenyHeaders ==
    {"X-RateLimit-Limit", "X-RateLimit-Remaining", "X-RateLimit-Reset", "X-RateLimit-Type"}

set_json(r, len, tag) == set_body(r, len, tag)

\* config_.rate_limit_response(): the response the configuration makes
rate_limit_response == set_text(NewResponse(503), 9, "custom")

\* the function RateLimiter::create_middleware returns, from the result of
\* check_request on: [continue, response]
rate_limit_middleware(result, resp) ==
    IF ~result.allowed
    THEN [continue |-> FALSE,
          response |-> IF config_.custom THEN rate_limit_response
                       ELSE set_json([set_headers_x(resp, RateLimitDenyHeaders)
                                        EXCEPT !.status = 429], 60, "rate limit")]
    ELSE [continue |-> TRUE, response |-> set_headers_x(resp, RateLimitAllowHeaders)]

NoMiddlewareCall ==
    [called |-> FALSE, result |-> CheckRecord(0, 0, TRUE, 0, 0, FALSE, 0, 0, ""),
     before |-> NoResponse, continue |-> TRUE, response |-> NoResponse]

middleware_call(result, resp, out) ==
    [called |-> TRUE, result |-> result, before |-> resp,
     continue |-> out.continue, response |-> out.response]

\* the rest of the middleware's call, after check_request has returned for
\* the key it checked
Middleware ==
    \E key \in Keys :
        /\ checks'[key] # checks[key]
        /\ m_out' = middleware_call(checks'[key][Len(checks'[key])], NewResponse(200),
                                    rate_limit_middleware(checks'[key][Len(checks'[key])],
                                                          NewResponse(200)))

\* TokenBucketLimiter::cleanup_expired
cleanup_buckets ==
    [key \in Keys |->
       IF buckets_[key].present /\ Minutes(clock - buckets_[key].last_refill) > 60
       THEN NoBucket ELSE buckets_[key]]

\* SlidingWindowLimiter::cleanup_expired; a log left empty is erased
cleanup_logs == [key \in Keys |-> remove_expired(request_logs_[key], clock - Hour)]

\* FixedWindowLimiter::cleanup_expired
cleanup_windows ==
    [key \in Keys |->
       IF windows_[key].present /\ Minutes(clock - windows_[key].window_start) > 60
       THEN NoWindow ELSE windows_[key]]

\* RateLimiter::cleanup_worker, one round: cleanup_expired of the algorithm
CleanupExpired ==
    /\ buckets_' = IF config_.strategy = "TOKEN_BUCKET" THEN cleanup_buckets ELSE buckets_
    /\ windows_' = IF config_.strategy = "FIXED_WINDOW" THEN cleanup_windows ELSE windows_
    /\ request_logs_' = IF config_.strategy = "SLIDING_WINDOW" THEN cleanup_logs
                        ELSE request_logs_
    /\ UNCHANGED <<config_, clock, checks, m_out>>

\* time passes
ClockAdvance ==
    /\ \E u \in Later(clock) : clock' = u
    /\ UNCHANGED <<config_, buckets_, windows_, request_logs_, checks, m_out>>

\* a limiter that has checked nothing
NoChecks ==
    /\ buckets_ = [key \in Keys |-> NoBucket]
    /\ windows_ = [key \in Keys |-> NoWindow]
    /\ request_logs_ = [key \in Keys |-> <<>>]
    /\ clock = 0
    /\ checks = [key \in Keys |-> <<>>]
    /\ m_out = NoMiddlewareCall

\* the limiter of the specifications that make no checks
LimiterIdle ==
    /\ config_ = [strategy |-> "TOKEN_BUCKET", max_requests |-> 1,
                  window_duration |-> 1, burst_capacity |-> 1,
                  enabled |-> TRUE, custom |-> FALSE]
    /\ NoChecks

limiter_vars == <<config_, buckets_, windows_, request_logs_, clock, checks, m_out>>

(***************************************************************************)
(* WebSocketConnection.  Time is counted in ticks of 100 ms.               *)
(***************************************************************************)
\* the last instant of the connection's clock
MaxWsTime == 900

\* the most frames the peer sends
MaxWsFrames == 2

\* the most frames the connection hands to send_frame
MaxWsSends == 2

\* WebSocketConnection::TIMEOUT and PING_INTERVAL, and the delay of close()
WS_TIMEOUT == 600
PING_INTERVAL == 300
CLOSE_DELAY == 1

\* the most writes on the socket async_write needs for one frame
MaxPieces == 2

Frame(opcode, fin, payload) == [opcode |-> opcode, fin |-> fin, payload |-> payload]

\* the two bytes of a close code, high byte first
CodeBytes(code) == <<code \div 256, code % 256>>

\* the frames the peer sends
PeerFrames ==
    { Frame("TEXT", TRUE, <<"a">>), Frame("TEXT", FALSE, <<"a">>),
      Frame("CONTINUATION", FALSE, <<"b">>), Frame("CONTINUATION", TRUE, <<"c">>),
      Frame("BINARY", TRUE, <<"a">>), Frame("PING", TRUE, <<"p">>),
      Frame("PONG", TRUE, <<>>), Frame("CLOSE", TRUE, CodeBytes(1000)) }

\* the arguments close() is called with
CloseCodes == {0, 1000}
CloseReasons == {<<>>, <<"b", "y", "e">>}

NoTimer == [wait |-> "none", at |-> 0]

\* what a step did: the operation, its argument (the frame read, the code and
\* reason of a close() that acted), the handlers it invoked, the frames it
\* handed to send_frame, and whether it invoked a handler with state_ CLOSED
Did(op, arg) == [op |-> op, arg |-> arg, calls |-> <<>>, sent |-> <<>>, late |-> FALSE]

\* WebSocketConnection::WebSocketConnection
NewConnection ==
    [state_ |-> "CONNECTING", socket_open |-> TRUE, reading |-> FALSE,
     timeout_timer_ |-> NoTimer, ping_timer_ |-> NoTimer, posted |-> FALSE,
     clock |-> 0, writes |-> <<>>, wire_last |-> 0, wire_in_order |-> TRUE, nsent |-> 0,
     fragments |-> <<>>, nreceived |-> 0, last_rx |-> 0, close_at |-> 0,
     last |-> Did("new", <<>>)]

\* an operation begins
begin(c, op, arg) == [c EXCEPT !.last = Did(op, arg)]

\* a handler the application registered is invoked
invoke(c, h, arg) ==
    [c EXCEPT !.last.calls = Append(@, [h |-> h, arg |-> arg]),
              !.last.late = @ \/ c.state_ = "CLOSED"]

\* timeout_timer_.expires_after(delay) and async_wait: a wait that was
\* pending is cancelled and its handler posted; the handler of a timeout
\* wait returns on the error, the handler of close() ignores it
arm_timeout_timer(c, wait, delay) ==
    [c EXCEPT !.timeout_timer_ = [wait |-> wait, at |-> c.clock + delay],
              !.posted = @ \/ c.timeout_timer_.wait = "close"]

\* WebSocketConnection::setup_timeout
ws_setup_timeout(c) == arm_timeout_timer(c, "timeout", WS_TIMEOUT)

\* WebSocketConnection::setup_ping_timer
setup_ping_timer(c) ==
    [c EXCEPT !.ping_timer_ = [wait |-> "ping", at |-> c.clock + PING_INTERVAL]]

\* WebSocketConnection::send_frame: an async_write of the frame begins
send_frame(c, f) ==
    [c EXCEPT !.writes = Append(@, [id |-> c.nsent + 1, left |-> MaxPieces]),
              !.nsent = @ + 1,
              !.last.sent = Append(@, f)]

\* send_text, send_binary, send_ping, send_pong
send_message(c, opcode, payload) ==
    IF c.state_ # "OPEN" THEN c ELSE send_frame(c, Frame(opcode, TRUE, payload))

\* WebSocketConnection::handle_error
ws_handle_error(c, what) ==
    [invoke(c, "error", what) EXCEPT !.state_ = "CLOSED", !.socket_open = FALSE]

\* a CLOSE frame that leaves the reason out
close_payload_without_reason(code, reason) == IF code # 0 THEN CodeBytes(code) ELSE <<>>

\* the payload of the CLOSE frame close() sends
ClosePayload(code, reason) == IF code # 0 THEN CodeBytes(code) \o reason ELSE <<>>

\* WebSocketConnection::close
ws_close(c, code, reason) ==
    IF c.state_ \in {"CLOSED", "CLOSING"} THEN c
    ELSE arm_timeout_timer(
             send_frame([c EXCEPT !.state_ = "CLOSING", !.close_at = c.clock,
                                  !.last.arg = <<code, reason>>],
                        Frame("CLOSE", TRUE, ClosePayload(code, reason))),
             "close", CLOSE_DELAY)

\* WebSocketConnection::handle_close_frame
handle_close_frame(c, data) ==
    [invoke(c, "close",
            IF Len(data) >= 2 THEN <<data[1] * 256 + data[2], Drop(data, 2)>>
            ELSE <<1000, <<>>>>)
       EXCEPT !.state_ = "CLOSED", !.socket_open = FALSE]

\* WebSocketConnection::handle_frame
handle_frame(c, f) ==
    CASE f.opcode = "TEXT" -> invoke(c, "text", f.payload)
      [] f.opcode = "BINARY" -> invoke(c, "binary", f.payload)
      [] f.opcode = "CLOSE" -> handle_close_frame(c, f.payload)
      [] f.opcode = "PING" -> send_message(c, "PONG", f.payload)
      [] f.opcode = "PONG" -> ws_setup_timeout(c)
      [] OTHER -> c

\* the fragments of the message the peer has begun and not finished, after
\* frame f
fragments_after(frags, f) ==
    CASE f.opcode \in {"TEXT", "BINARY"} -> IF f.fin THEN <<>> ELSE <<f>>
      [] f.opcode = "CONTINUATION" ->
           IF frags = <<>> \/ f.fin THEN <<>> ELSE Append(frags, f)
      [] OTHER -> frags

\* what the peer has sent, with frame f
received(c, f) ==
    [c EXCEPT !.nreceived = @ + 1, !.last_rx = c.clock,
              !.fragments = fragments_after(@, f)]

\* read_frame() again, if the connection is still open
read_again(c) == [c EXCEPT !.reading = (c.state_ = "OPEN")]

\* WebSocketConnection::process_frames: every frame in frame_buffer_ is handled
RECURSIVE process_frames(_, _)
process_frames(c, frames) ==
    IF frames = <<>> THEN c
    ELSE process_frames(handle_frame(received(c, Head(frames)), Head(frames)), Tail(frames))

\* a read has begun: of one frame, or of several frames at once
begin_read(c, frames) ==
    IF Len(frames) = 1 THEN begin(c, "read", frames[1]) ELSE begin(c, "read_frames", <<>>)

\* WebSocketConnection::handle_read of the bytes of the frames
ws_handle_read(c, frames) == read_again(process_frames(begin_read(c, frames), frames))

\* WebSocketConnection::handshake; a write to a closed socket fails
ws_handshake(c) ==
    IF ~c.socket_open THEN ws_handle_error(c, "handshake")
    ELSE [c EXCEPT !.state_ = "OPEN"]

\* WebSocketConnection::start
ws_start(c) ==
    IF c.state_ # "OPEN" THEN c
    ELSE [ws_setup_timeout(setup_ping_timer(c)) EXCEPT !.reading = TRUE]

\* WebSocketConnection::handle_timeout without error
ws_handle_timeout(c) ==
    IF c.state_ # "OPEN" THEN c ELSE ws_handle_error(c, "Connection timeout")

\* WebSocketConnection::handle_ping_timer without error
handle_ping_timer(c) ==
    IF c.state_ # "OPEN" THEN c ELSE setup_ping_timer(send_message(c, "PING", <<>>))

\* the handler close() gives to the timer
close_socket(c) == [c EXCEPT !.state_ = "CLOSED", !.socket_open = FALSE]

\* a write of some pieces of the frame whose async_write is first in line;
\* an async_write that has pieces left queues its next write behind the
\* writes of the others.  Frames are numbered in the order of the calls of
\* send_frame: wire_last is the frame of the last piece on the wire, and
\* wire_in_order says that no piece followed a piece of a later frame
write_some(c, n) ==
    [c EXCEPT !.wire_last = c.writes[1].id,
              !.wire_in_order = @ /\ c.wire_last <= c.writes[1].id,
              !.writes = IF n = c.writes[1].left THEN Tail(@)
                         ELSE Append(Tail(@), [id |-> c.writes[1].id,
                                               left |-> c.writes[1].left - n])]

\* a handler waits to run: a timer has expired or a cancelled wait's handler
\* is posted
TimeoutDue(c) == c.timeout_timer_.wait = "timeout" /\ c.timeout_timer_.at <= c.clock
CloseDue(c) == c.posted \/ (c.timeout_timer_.wait = "close" /\ c.timeout_timer_.at <= c.clock)
PingDue(c) == c.ping_timer_.wait = "ping" /\ c.ping_timer_.at <= c.clock

\* the expiry times of the timers that wait
Expiries(c) ==
    {t \in {c.timeout_timer_.at, c.ping_timer_.at} :
       \/ c.timeout_timer_.wait # "none" /\ t = c.timeout_timer_.at
       \/ c.ping_timer_.wait # "none" /\ t = c.ping_timer_.at}

\* the server calls handshake() on a new connection with a valid upgrade
\* request
WsHandshake ==
    /\ ws.state_ = "CONNECTING"
    /\ ws' = ws_handshake(begin(ws, "handshake", <<>>))

\* the application calls start() on a connection that is not reading
WsStart ==
    /\ ~ws.reading
    /\ ws.timeout_timer_.wait # "close"
    /\ ws' = ws_start(begin(ws, "start", <<>>))

\* the frames that reach the server together with the frame before them
FollowingFrames == {Frame("TEXT", TRUE, <<"a">>), Frame("CLOSE", TRUE, CodeBytes(1000))}

\* the frames one read can bring: one frame, or two frames at once
ReadFrames ==
    {<<f>> : f \in PeerFrames} \cup {<<f, g>> : f \in PeerFrames, g \in FollowingFrames}

\* the PING frames among the frames
Pings(frames) == Cardinality({i \in 1..Len(frames) : frames[i].opcode = "PING"})

\* a read completes with the bytes of one or two frames
WsHandleRead ==
    /\ ws.reading /\ ws.socket_open
    /\ \E frames \in ReadFrames :
          /\ ws.nreceived + Len(frames) <= MaxWsFrames
          /\ ws.nsent + Pings(frames) <= MaxWsSends
          /\ ws' = ws_handle_read(ws, frames)

\* a read completes with an error: the peer is gone or the socket was closed
WsReadError ==
    /\ ws.reading
    /\ ws' = [ws_handle_error(begin(ws, "read_error", <<>>), "Read error")
                EXCEPT !.reading = FALSE]

\* the application calls send_text or send_ping (send_binary and send_pong have
\* the same body)
WsSend ==
    /\ ws.nsent < MaxWsSends
    /\ \E opcode \in {"TEXT", "PING"} :
          ws' = send_message(begin(ws, "send", <<>>), opcode, <<"m">>)

\* the application calls close(code, reason)
WsClose ==
    /\ ws.nsent < MaxWsSends
    /\ \E code \in CloseCodes, reason \in CloseReasons :
          ws' = ws_close(begin(ws, "close", <<>>), code, reason)

\* a write on the socket completes
WsWriteSome ==
    /\ ws.writes # <<>> /\ ws.socket_open
    /\ \E n \in 1..ws.writes[1].left : ws' = write_some(begin(ws, "write", <<>>), n)

\* a write on the closed socket completes with an error: handle_write
WsWriteError ==
    /\ ws.writes # <<>> /\ ~ws.socket_open
    /\ ws' = [ws_handle_error(begin(ws, "write_error", <<>>), "Write error")
                EXCEPT !.writes = Tail(@)]

\* the wait of setup_timeout expires
WsHandleTimeout ==
    /\ TimeoutDue(ws)
    /\ ws' = ws_handle_timeout([begin(ws, "timeout", <<>>) EXCEPT !.timeout_timer_ = NoTimer])

\* the handler of close() runs: its wait expired or was cancelled
WsCloseSocket ==
    /\ CloseDue(ws)
    /\ ws' = close_socket([begin(ws, "close_timer", <<>>)
                             EXCEPT !.posted = FALSE,
                                    !.timeout_timer_ = IF ws.posted THEN @ ELSE NoTimer])

\* the wait of setup_ping_timer expires
WsHandlePingTimer ==
    /\ PingDue(ws)
    /\ ws.state_ = "OPEN" => ws.nsent < MaxWsSends
    /\ ws' = handle_ping_timer([begin(ws, "ping_timer", <<>>) EXCEPT !.ping_timer_ = NoTimer])

\* time passes until the next timer expires
WsAdvance ==
    /\ ~TimeoutDue(ws) /\ ~CloseDue(ws) /\ ~PingDue(ws)
    /\ Expiries(ws) # {}
    /\ \E t \in Expiries(ws) :
          /\ \A u \in Expiries(ws) : t <= u
          /\ t <= MaxWsTime
          /\ ws' = [begin(ws, "advance", <<>>) EXCEPT !.clock = t]

\* no WebSocket connection
WsIdle == ws = NewConnection

ws_vars == <<ws>>

(***************************************************************************)
(* HttpRequest::parse of a request with Transfer-Encoding: chunked.        *)
(***************************************************************************)
\* the most parts a request body is made of
MaxParts == 3

\* the parts of a body: chunks of one and of two bytes, the zero-size chunk,
\* an empty line, a chunk of 255 bytes cut short after its first byte, bytes
\* that are no chunk
PartKinds == {"chunk1", "chunk2", "last", "crlf", "cut", "junk"}

\* the data of a chunk: n bytes
ChunkData(kind) ==
    CASE kind = "chunk1" -> <<FILL(1)>>
      [] kind = "chunk2" -> <<FILL(2)>>
      [] OTHER -> <<>>

\* a part as the peer writes it
PartWire(kind) ==
    CASE kind \in {"chunk1", "chunk2"} ->
           <<HEX(Size(ChunkData(kind)), 1), CR, LF>> \o ChunkData(kind) \o <<CR, LF>>
      [] kind = "last" -> <<ZERO, CR, LF>>
      [] kind = "crlf" -> <<CR, LF>>
      [] kind = "cut" -> <<HEX(255, 2), CR, LF, FILL(1)>>
      [] OTHER -> <<FILL(1), CR, LF>>

RECURSIVE BodyWire(_)
BodyWire(parts) ==
    IF parts = <<>> THEN <<>> ELSE PartWire(Head(parts)) \o BodyWire(Tail(parts))

\* the request as the peer writes it
ChunkedRequest(parts) == Std(RL("POST", "/hello", "HTTP/1.1"), <<Host, Chunked>>, BodyWire(parts))

NotParsed == [done |-> FALSE, request |-> Nullopt]

\* the peer writes one more part of the body
WritePart ==
    /\ Len(chunked.parts) < MaxParts
    /\ \E kind \in PartKinds :
          chunked' = [parts |-> Append(chunked.parts, kind), parsed |-> NotParsed]

\* HttpRequest::parse(raw_request)
ParseRequest ==
    /\ ~chunked.parsed.done
    /\ chunked' = [chunked EXCEPT !.parsed = [done |-> TRUE,
                                              request |-> parse(ChunkedRequest(chunked.parts))]]

\* no request
ParseIdle == chunked = [parts |-> <<>>, parsed |-> NotParsed]

parse_vars == <<chunked>>

(***************************************************************************)
(* ThreadPool.  Tasks are numbered in the order of enqueue.                *)
(***************************************************************************)
\* the most worker threads of a pool
MaxThreads == 2

\* the most tasks enqueued
MaxTasks == 3

\* ThreadPool::ThreadPool(thread_count): the workers wait for tasks
NewPool(thread_count) ==
    [workers_ |-> [w \in 1..thread_count |-> [at |-> "wait", task |-> 0]],
     tasks_ |-> <<>>, stop_ |-> FALSE,
     enqueued |-> 0, finished |-> {}, thrown |-> 0,
     shutdown |-> "no", before |-> {}]

\* queue_mutex_ is free: no worker holds it between its test and its wait
MutexFree == \A w \in DOMAIN pool.workers_ : pool.workers_[w].at # "toblock"

\* the workers that sleep in condition_.wait
Blocked == {w \in DOMAIN pool.workers_ : pool.workers_[w].at = "blocked"}

\* condition_.notify_one: worker w, if one sleeps, goes back to the test
notify_one(workers, w) ==
    IF Blocked = {} THEN workers ELSE [workers EXCEPT ![w].at = "wait"]

\* ThreadPool::enqueue: under queue_mutex_ it throws on a stopped pool, else it
\* queues the task, and then notify_one
PoolEnqueue ==
    /\ pool.enqueued + pool.thrown < MaxTasks
    /\ MutexFree
    /\ \E w \in IF Blocked = {} THEN {0} ELSE Blocked :
         pool' = IF pool.stop_ THEN [pool EXCEPT !.thrown = @ + 1]
                 ELSE [pool EXCEPT !.tasks_ = Append(@, pool.enqueued + 1),
                                   !.enqueued = @ + 1,
                                   !.workers_ = notify_one(@, w)]

\* a worker finds a task at the test of condition_.wait: tasks_.front(), tasks_.pop()
WorkerTakes ==
    \E w \in DOMAIN pool.workers_ :
       /\ pool.workers_[w].at = "wait"
       /\ MutexFree
       /\ pool.tasks_ # <<>>
       /\ pool' = [pool EXCEPT !.workers_[w] = [at |-> "run", task |-> Head(pool.tasks_)],
                               !.tasks_ = Tail(@)]

\* task() returns
WorkerFinishes ==
    \E w \in DOMAIN pool.workers_ :
       /\ pool.workers_[w].at = "run"
       /\ pool' = [pool EXCEPT !.workers_[w] = [at |-> "wait", task |-> 0],
                               !.finished = @ \cup {pool.workers_[w].task}]

\* a worker finds stop_ set and no task at the test of condition_.wait: it returns
WorkerReturns ==
    \E w \in DOMAIN pool.workers_ :
       /\ pool.workers_[w].at = "wait"
       /\ MutexFree
       /\ pool.stop_ /\ pool.tasks_ = <<>>
       /\ pool' = [pool EXCEPT !.workers_[w].at = "returned"]

\* a worker finds the predicate of condition_.wait false: it holds queue_mutex_
\* and is about to sleep
WorkerFindsNothing ==
    \E w \in DOMAIN pool.workers_ :
       /\ pool.workers_[w].at = "wait"
       /\ MutexFree
       /\ ~pool.stop_ /\ pool.tasks_ = <<>>
       /\ pool' = [pool EXCEPT !.workers_[w].at = "toblock"]

\* condition_.wait releases queue_mutex_ and the worker sleeps
WorkerBlocks ==
    \E w \in DOMAIN pool.workers_ :
       /\ pool.workers_[w].at = "toblock"
       /\ pool' = [pool EXCEPT !.workers_[w].at = "blocked"]

\* ThreadPool::shutdown is called: stop_.store(true), without queue_mutex_
ShutdownCalled ==
    /\ pool.shutdown = "no"
    /\ pool' = [pool EXCEPT !.stop_ = TRUE, !.shutdown = "notifying",
                            !.before = 1..pool.enqueued]

\* notify_all of shutdown: the workers that sleep go back to the test
ShutdownNotifies ==
    /\ pool.shutdown = "notifying"
    /\ pool' = [pool EXCEPT !.shutdown = "joining",
                            !.workers_ = [w \in DOMAIN pool.workers_ |->
                                            IF w \in Blocked
                                            THEN [pool.workers_[w] EXCEPT !.at = "wait"]
                                            ELSE pool.workers_[w]]]

\* ThreadPool::shutdown returns: every worker is joined
ShutdownReturns ==
    /\ pool.shutdown = "joining"
    /\ \A w \in DOMAIN pool.workers_ : pool.workers_[w].at = "returned"
    /\ pool' = [pool EXCEPT !.shutdown = "returned"]

\* no pool in use
PoolIdle == pool = NewPool(0)

pool_vars == <<pool>>

(***************************************************************************)
(* RateLimiter: the object, its cleanup thread and the threads that call   *)
(* it.  Algorithm objects are numbered in the order of their construction. *)
(***************************************************************************)
\* the most calls of update_config
MaxUpdates == 2

\* the threads that call check_request
Callers == {"c1", "c2"}

\* RateLimiter::RateLimiter: the first algorithm object, the cleanup thread at
\* the head of its loop, no caller inside
NewRateLimiter ==
    [algorithm_ |-> 1, destroyed |-> {}, stop_cleanup_ |-> FALSE,
     worker |-> "while", cleaning |-> 0, calling |-> [t \in Callers |-> 0],
     destructor |-> "no"]

\* RateLimiter::check_request reads algorithm_ and enters check_rate_limit of
\* that object
CheckRequestCalled ==
    /\ rate_limiter.destructor = "no"
    /\ \E t \in Callers :
         /\ rate_limiter.calling[t] = 0
         /\ rate_limiter' = [rate_limiter EXCEPT !.calling[t] = rate_limiter.algorithm_]

\* check_rate_limit returns
CheckRequestReturns ==
    \E t \in Callers :
       /\ rate_limiter.calling[t] # 0
       /\ rate_limiter' = [rate_limiter EXCEPT !.calling[t] = 0]

\* the assignment of a new object to the unique_ptr algorithm_ destroys the
\* object it held
replace_algorithm(destroyed, old) == destroyed \cup {old}

\* RateLimiter::update_config, under config_mutex_
UpdateConfig ==
    /\ rate_limiter.destructor = "no"
    /\ rate_limiter.algorithm_ <= MaxUpdates
    /\ rate_limiter' =
         [rate_limiter EXCEPT !.algorithm_ = @ + 1,
                              !.destroyed = replace_algorithm(@, rate_limiter.algorithm_)]

\* cleanup_worker at while (!stop_cleanup_): it locks cleanup_mutex_ or returns
CleanupLoops ==
    /\ rate_limiter.worker = "while"
    /\ rate_limiter' = [rate_limiter EXCEPT !.worker = IF rate_limiter.stop_cleanup_
                                                      THEN "returned" ELSE "wait_for"]

\* wait_for evaluates its predicate under cleanup_mutex_
CleanupTestsPredicate ==
    /\ rate_limiter.worker = "wait_for"
    /\ rate_limiter' = [rate_limiter EXCEPT !.worker = IF rate_limiter.stop_cleanup_
                                                      THEN "if" ELSE "toblock"]

\* wait_for releases cleanup_mutex_ and the thread sleeps for 5 minutes
CleanupSleeps ==
    /\ rate_limiter.worker = "toblock"
    /\ rate_limiter' = [rate_limiter EXCEPT !.worker = "blocked"]

\* the 5 minutes are over: wait_for returns
CleanupTimesOut ==
    /\ rate_limiter.worker = "blocked"
    /\ rate_limiter' = [rate_limiter EXCEPT !.worker = "if"]

\* cleanup_worker at if (!stop_cleanup_): it reads algorithm_ and enters
\* cleanup_expired of that object, or goes round
CleanupPasses ==
    /\ rate_limiter.worker = "if"
    /\ rate_limiter' = IF rate_limiter.stop_cleanup_
                       THEN [rate_limiter EXCEPT !.worker = "while"]
                       ELSE [rate_limiter EXCEPT !.worker = "cleanup_expired",
                                                 !.cleaning = rate_limiter.algorithm_]

\* cleanup_expired returns
CleanupPassReturns ==
    /\ rate_limiter.worker = "cleanup_expired"
    /\ rate_limiter' = [rate_limiter EXCEPT !.worker = "while", !.cleaning = 0]

\* RateLimiter::~RateLimiter: stop_cleanup_ = true, without cleanup_mutex_
DestructorStores ==
    /\ rate_limiter.destructor = "no"
    /\ \A t \in Callers : rate_limiter.calling[t] = 0
    /\ rate_limiter' = [rate_limiter EXCEPT !.stop_cleanup_ = TRUE, !.destructor = "notify"]

\* cleanup_cv_.notify_one of the destructor: a thread that sleeps in wait_for
\* wakes, finds the predicate true and returns from wait_for
DestructorNotifies ==
    /\ rate_limiter.destructor = "notify"
    /\ rate_limiter' = [rate_limiter EXCEPT !.destructor = "join",
                                            !.worker = IF @ = "blocked" THEN "if" ELSE @]

\* cleanup_thread_.join returns
DestructorJoins ==
    /\ rate_limiter.destructor = "join"
    /\ rate_limiter.worker = "returned"
    /\ rate_limiter' = [rate_limiter EXCEPT !.destructor = "done"]

\* a RateLimiter nobody uses
RateLimiterIdle == rate_limiter = NewRateLimiter

lifetime_vars == <<rate_limiter>>

router_vars == <<middleware_, r_out, h_out, route_order>>
accept_vars == <<running_, max_connections, active_connections, total_connections,
                 accept_pending, io_stopped, connections>>

vars == <<conn_vars, router_vars, accept_vars, limiter_vars, ws_vars, parse_vars, pool_vars,
          lifetime_vars>>

\* the server the connection of Spec belongs to: no middleware, and the one
\* connection accepted
ServerInit ==
    /\ middleware_ = <<>>
    /\ r_out = NoCall
    /\ h_out = NoCall
    /\ route_order \in RouteOrders
    /\ running_ = TRUE
    /\ max_connections = 1
    /\ active_connections = 1
    /\ total_connections = 1
    /\ accept_pending = TRUE
    /\ io_stopped = FALSE
    /\ connections = <<"open">>
    /\ LimiterIdle
    /\ WsIdle
    /\ ParseIdle
    /\ PoolIdle
    /\ RateLimiterIdle

Init == ConnInit /\ ServerInit

Next ==
    \/ Start /\ UNCHANGED <<router_vars, accept_vars, limiter_vars, ws_vars, parse_vars, pool_vars, lifetime_vars>>
    \/ HandleRead /\ UNCHANGED <<router_vars, accept_vars, limiter_vars, ws_vars, parse_vars, pool_vars, lifetime_vars>>
    \/ WriteHeadersDone /\ UNCHANGED <<router_vars, accept_vars, limiter_vars, ws_vars, parse_vars, pool_vars, lifetime_vars>>
    \/ WriteBodyDone /\ UNCHANGED <<router_vars, accept_vars, limiter_vars, ws_vars, parse_vars, pool_vars, lifetime_vars>>
    \/ IoError /\ UNCHANGED <<router_vars, accept_vars, limiter_vars, ws_vars, parse_vars, pool_vars, lifetime_vars>>
    \/ HandleTimeout /\ UNCHANGED <<router_vars, accept_vars, limiter_vars, ws_vars, parse_vars, pool_vars, lifetime_vars>>
    \/ Tick /\ UNCHANGED <<router_vars, accept_vars, limiter_vars, ws_vars, parse_vars, pool_vars, lifetime_vars>>

Spec == Init /\ [][Next]_vars

(***************************************************************************)
(* HttpServer request dispatch on its own: middleware is registered, and   *)
(* parsed requests are handed to handle_request.                           *)
(***************************************************************************)
MaxMiddleware == 3

\* the middleware registered: one that does nothing, the rate limiter when it
\* allows and when it denies, and one that refuses with 403
MiddlewareKinds ==
    { [stop |-> FALSE, status |-> 0, hdrs |-> {}],
      [stop |-> FALSE, status |-> 0, hdrs |-> RateLimitAllowHeaders],
      [stop |-> TRUE, status |-> 429, hdrs |-> RateLimitDenyHeaders],
      [stop |-> TRUE, status |-> 403, hdrs |-> {}] }

RouterRequests ==
    { parse(Std(Get(t), <<Host>>, <<>>)) : t \in {"/hello", "/missing", "/file.txt", "/boom", "/api/x", "/docs",
                                                  "/../www-secret/key.txt", "/../../etc/passwd"} }
    \cup { parse(Std(RL("POST", "/hello", "HTTP/1.1"), <<Host>>, <<>>)) }

\* the requests the connection handler is called with: those of
\* RouterRequests and WebSocket upgrade attempts
WsKey == HDR("Sec-WebSocket-Key", "dGhlIHNhbXBsZSBub25jZQ==", 0)
WsVersion(v) == HDR("Sec-WebSocket-Version", v, 0)
WsUpgrade == HDR("Upgrade", "websocket", 0)
WsConnection == HDR("Connection", "Upgrade", 0)

UpgradeRequests ==
    { parse(Std(Get("/ws"), hdrs, <<>>)) :
        hdrs \in { <<WsUpgrade, WsConnection, WsVersion("13"), WsKey>>,
                   <<WsUpgrade, WsConnection, WsVersion("8"), WsKey>>,
                   <<WsUpgrade, WsConnection, WsKey>>,
                   <<WsUpgrade, WsConnection, WsVersion("13"),
                     HDR("Sec-WebSocket-Key", "c2hvcnQ=", 0)>>,
                   <<WsUpgrade, WsConnection, WsVersion("13")>>,
                   <<WsUpgrade, HDR("Connection", "keep-alive", 0), WsVersion("13"), WsKey>> } }
    \cup { parse(Std(Get("/nows"), <<WsUpgrade, WsConnection, WsVersion("13"), WsKey>>, <<>>)) }

\* HttpServer::add_middleware
AddMiddleware ==
    /\ Len(middleware_) < MaxMiddleware
    /\ \E m \in MiddlewareKinds : middleware_' = Append(middleware_, m)
    /\ UNCHANGED <<r_out, h_out, route_order>>

\* one call of HttpServer::handle_request
Dispatch ==
    /\ \E req \in RouterRequests :
         LET out == handle_request(req, middleware_)
         IN r_out' = [chain |-> middleware_, request |-> req,
                      response |-> out.response, calls |-> out.calls]
    /\ h_out' = NoCall
    /\ UNCHANGED <<middleware_, route_order>>

\* one call of the request handler handle_accept gives every Connection
RequestHandler ==
    /\ \E req \in RouterRequests \cup UpgradeRequests :
         LET out == ServerHandler(req, middleware_)
         IN /\ h_out' = [chain |-> middleware_, request |-> req,
                         response |-> out.response, calls |-> out.calls]
            /\ r_out' = IF is_websocket_request(req) THEN NoCall
                        ELSE [chain |-> middleware_, request |-> req,
                              response |-> out.response, calls |-> out.calls]
    /\ UNCHANGED <<middleware_, route_order>>

RouterInit ==
    /\ wire = <<>>
    /\ request_data = <<>>
    /\ stage = "new"
    /\ timer_armed = FALSE
    /\ deadline = 0
    /\ now = 0
    /\ last_rx = 0
    /\ closed_by = "none"
    /\ response = NoResponse
    /\ stream_pos = 0
    /\ pending = 0
    /\ sent = [hdr |-> 0, body |-> 0]
    /\ log = <<>>
    /\ middleware_ = <<>>
    /\ r_out = NoCall
    /\ h_out = NoCall
    /\ route_order \in RouteOrders
    /\ running_ = TRUE
    /\ max_connections = 1
    /\ active_connections = 0
    /\ total_connections = 0
    /\ accept_pending = FALSE
    /\ io_stopped = FALSE
    /\ connections = <<>>
    /\ LimiterIdle
    /\ WsIdle
    /\ ParseIdle
    /\ PoolIdle
    /\ RateLimiterIdle

RouterNext ==
    \/ AddMiddleware /\ UNCHANGED <<conn_vars, accept_vars, limiter_vars, ws_vars, parse_vars, pool_vars, lifetime_vars>>
    \/ Dispatch /\ UNCHANGED <<conn_vars, accept_vars, limiter_vars, ws_vars, parse_vars, pool_vars, lifetime_vars>>
    \/ RequestHandler /\ UNCHANGED <<conn_vars, accept_vars, limiter_vars, ws_vars, parse_vars, pool_vars, lifetime_vars>>

RouterSpec == RouterInit /\ [][RouterNext]_vars

(***************************************************************************)
(* HttpServer: accepting connections.                                      *)
(***************************************************************************)
\* the most connections the acceptor takes in a behaviour
MaxAccepts == 6

\* the largest max_connections a configuration of the model sets
MaxLimit == 3

\* a connection object that has not started, and a server without middleware
Quiescent ==
    /\ wire = <<>>
    /\ request_data = <<>>
    /\ stage = "new"
    /\ timer_armed = FALSE
    /\ deadline = 0
    /\ now = 0
    /\ last_rx = 0
    /\ closed_by = "none"
    /\ response = NoResponse
    /\ stream_pos = 0
    /\ pending = 0
    /\ sent = [hdr |-> 0, body |-> 0]
    /\ log = <<>>
    /\ middleware_ = <<>>
    /\ r_out = NoCall
    /\ h_out = NoCall
    /\ route_order = CHOOSE o \in RouteOrders : TRUE

\* HttpServer::HttpServer: not running, no connection counted
AcceptInit ==
    /\ Quiescent
    /\ running_ = FALSE
    /\ max_connections \in 1..MaxLimit
    /\ active_connections = 0
    /\ total_connections = 0
    /\ accept_pending = FALSE
    /\ io_stopped = FALSE
    /\ connections = <<>>
    /\ LimiterIdle
    /\ WsIdle
    /\ ParseIdle
    /\ PoolIdle
    /\ RateLimiterIdle

\* HttpServer::start: running_ is set and accept_connections starts the first accept
StartServer ==
    /\ ~running_
    /\ running_' = TRUE
    /\ accept_pending' = TRUE
    /\ UNCHANGED <<max_connections, active_connections, total_connections, io_stopped,
                   connections>>

\* HttpServer::stop: acceptor_.close and io_context_.stop
StopServer ==
    /\ running_
    /\ running_' = FALSE
    /\ accept_pending' = FALSE
    /\ io_stopped' = TRUE
    /\ UNCHANGED <<max_connections, active_connections, total_connections, connections>>

\* HttpServer::handle_accept without error: the connection is counted and started,
\* and accept_connections starts the next accept
HandleAccept ==
    /\ running_
    /\ accept_pending
    /\ ~io_stopped
    /\ total_connections < MaxAccepts
    /\ total_connections' = total_connections + 1
    /\ active_connections' = active_connections + 1
    /\ connections' = Append(connections, "open")
    /\ accept_pending' = TRUE
    /\ UNCHANGED <<running_, max_connections, io_stopped>>

\* HttpServer::handle_accept with an error: the error is written to std::cerr
HandleAcceptError ==
    /\ running_
    /\ accept_pending
    /\ ~io_stopped
    /\ accept_pending' = FALSE
    /\ UNCHANGED <<running_, max_connections, active_connections, total_connections,
                   io_stopped, connections>>

\* Connection::close, reached from handle_error, handle_timeout or handle_write
CloseConnection ==
    /\ ~io_stopped
    /\ \E i \in 1..Len(connections) :
         /\ connections[i] = "open"
         /\ connections' = [connections EXCEPT ![i] = "closed"]
    /\ UNCHANGED <<running_, max_connections, active_connections, total_connections,
                   accept_pending, io_stopped>>

\* a cleanup callback that leaves the counter alone
no_callback(active) == active

\* the cleanup callback handle_accept gives the connection
cleanup_callback(active) == active - 1

\* Connection::~Connection, when the last handler of a closed connection has returned:
\* the callback a connection runs when it is destroyed
ConnectionClosed ==
    /\ ~io_stopped
    /\ \E i \in 1..Len(connections) :
         /\ connections[i] = "closed"
         /\ connections' = [connections EXCEPT ![i] = "destroyed"]
    /\ active_connections' = cleanup_callback(active_connections)
    /\ UNCHANGED <<running_, max_connections, total_connections, accept_pending, io_stopped>>

AcceptNext ==
    \/ StartServer /\ UNCHANGED <<conn_vars, router_vars, limiter_vars, ws_vars, parse_vars, pool_vars, lifetime_vars>>
    \/ StopServer /\ UNCHANGED <<conn_vars, router_vars, limiter_vars, ws_vars, parse_vars, pool_vars, lifetime_vars>>
    \/ HandleAccept /\ UNCHANGED <<conn_vars, router_vars, limiter_vars, ws_vars, parse_vars, pool_vars, lifetime_vars>>
    \/ HandleAcceptError /\ UNCHANGED <<conn_vars, router_vars, limiter_vars, ws_vars, parse_vars, pool_vars, lifetime_vars>>
    \/ CloseConnection /\ UNCHANGED <<conn_vars, router_vars, limiter_vars, ws_vars, parse_vars, pool_vars, lifetime_vars>>
    \/ ConnectionClosed /\ UNCHANGED <<conn_vars, router_vars, limiter_vars, ws_vars, parse_vars, pool_vars, lifetime_vars>>

AcceptSpec == AcceptInit /\ [][AcceptNext]_vars

(***************************************************************************)
(* RateLimiter: checks, cleanup rounds and the passing of time.            *)
(***************************************************************************)
\* RateLimiter::RateLimiter, in a server that is not running
LimiterInit ==
    /\ Quiescent
    /\ running_ = FALSE
    /\ max_connections = 1
    /\ active_connections = 0
    /\ total_connections = 0
    /\ accept_pending = FALSE
    /\ io_stopped = FALSE
    /\ connections = <<>>
    /\ config_ \in Configs
    /\ NoChecks
    /\ WsIdle
    /\ ParseIdle
    /\ PoolIdle
    /\ RateLimiterIdle

LimiterNext ==
    \/ DisabledCheck /\ Middleware /\ UNCHANGED <<conn_vars, router_vars, accept_vars, ws_vars, parse_vars, pool_vars, lifetime_vars>>
    \/ TokenBucketCheck /\ Middleware /\ UNCHANGED <<conn_vars, router_vars, accept_vars, ws_vars, parse_vars, pool_vars, lifetime_vars>>
    \/ FixedWindowCheck /\ Middleware /\ UNCHANGED <<conn_vars, router_vars, accept_vars, ws_vars, parse_vars, pool_vars, lifetime_vars>>
    \/ SlidingWindowCheck /\ Middleware /\ UNCHANGED <<conn_vars, router_vars, accept_vars, ws_vars, parse_vars, pool_vars, lifetime_vars>>
    \/ CleanupExpired /\ UNCHANGED <<conn_vars, router_vars, accept_vars, ws_vars, parse_vars, pool_vars, lifetime_vars>>
    \/ ClockAdvance /\ UNCHANGED <<conn_vars, router_vars, accept_vars, ws_vars, parse_vars, pool_vars, lifetime_vars>>

LimiterSpec == LimiterInit /\ [][LimiterNext]_vars

(***************************************************************************)
(* WebSocketConnection: the application's calls, the peer, the timers.     *)
(***************************************************************************)
WsInit ==
    /\ Quiescent
    /\ running_ = FALSE
    /\ max_connections = 1
    /\ active_connections = 0
    /\ total_connections = 0
    /\ accept_pending = FALSE
    /\ io_stopped = FALSE
    /\ connections = <<>>
    /\ LimiterIdle
    /\ ws = NewConnection
    /\ ParseIdle
    /\ PoolIdle
    /\ RateLimiterIdle

WsNext ==
    \/ WsHandshake /\ UNCHANGED <<conn_vars, router_vars, accept_vars, limiter_vars, parse_vars, pool_vars, lifetime_vars>>
    \/ WsStart /\ UNCHANGED <<conn_vars, router_vars, accept_vars, limiter_vars, parse_vars, pool_vars, lifetime_vars>>
    \/ WsHandleRead /\ UNCHANGED <<conn_vars, router_vars, accept_vars, limiter_vars, parse_vars, pool_vars, lifetime_vars>>
    \/ WsReadError /\ UNCHANGED <<conn_vars, router_vars, accept_vars, limiter_vars, parse_vars, pool_vars, lifetime_vars>>
    \/ WsSend /\ UNCHANGED <<conn_vars, router_vars, accept_vars, limiter_vars, parse_vars, pool_vars, lifetime_vars>>
    \/ WsClose /\ UNCHANGED <<conn_vars, router_vars, accept_vars, limiter_vars, parse_vars, pool_vars, lifetime_vars>>
    \/ WsWriteSome /\ UNCHANGED <<conn_vars, router_vars, accept_vars, limiter_vars, parse_vars, pool_vars, lifetime_vars>>
    \/ WsWriteError /\ UNCHANGED <<conn_vars, router_vars, accept_vars, limiter_vars, parse_vars, pool_vars, lifetime_vars>>
    \/ WsHandleTimeout /\ UNCHANGED <<conn_vars, router_vars, accept_vars, limiter_vars, parse_vars, pool_vars, lifetime_vars>>
    \/ WsCloseSocket /\ UNCHANGED <<conn_vars, router_vars, accept_vars, limiter_vars, parse_vars, pool_vars, lifetime_vars>>
    \/ WsHandlePingTimer /\ UNCHANGED <<conn_vars, router_vars, accept_vars, limiter_vars, parse_vars, pool_vars, lifetime_vars>>
    \/ WsAdvance /\ UNCHANGED <<conn_vars, router_vars, accept_vars, limiter_vars, parse_vars, pool_vars, lifetime_vars>>

WsSpec == WsInit /\ [][WsNext]_vars

(***************************************************************************)
(* HttpRequest::parse on chunked requests.                                 *)
(***************************************************************************)
ParseInit ==
    /\ Quiescent
    /\ running_ = FALSE
    /\ max_connections = 1
    /\ active_connections = 0
    /\ total_connections = 0
    /\ accept_pending = FALSE
    /\ io_stopped = FALSE
    /\ connections = <<>>
    /\ LimiterIdle
    /\ WsIdle
    /\ ParseIdle
    /\ PoolIdle
    /\ RateLimiterIdle

ParseNext ==
    \/ WritePart /\ UNCHANGED <<conn_vars, router_vars, accept_vars, limiter_vars, ws_vars, pool_vars, lifetime_vars>>
    \/ ParseRequest /\ UNCHANGED <<conn_vars, router_vars, accept_vars, limiter_vars, ws_vars, pool_vars, lifetime_vars>>

ParseSpec == ParseInit /\ [][ParseNext]_vars

(***************************************************************************)
(* ThreadPool: the threads that enqueue and shut down, and the workers.    *)
(***************************************************************************)
PoolInit ==
    /\ Quiescent
    /\ running_ = FALSE
    /\ max_connections = 1
    /\ active_connections = 0
    /\ total_connections = 0
    /\ accept_pending = FALSE
    /\ io_stopped = FALSE
    /\ connections = <<>>
    /\ LimiterIdle
    /\ WsIdle
    /\ ParseIdle
    /\ \E thread_count \in 0..MaxThreads : pool = NewPool(thread_count)
    /\ RateLimiterIdle

PoolNext ==
    \/ PoolEnqueue /\ UNCHANGED <<conn_vars, router_vars, accept_vars, limiter_vars, ws_vars, parse_vars, lifetime_vars>>
    \/ WorkerTakes /\ UNCHANGED <<conn_vars, router_vars, accept_vars, limiter_vars, ws_vars, parse_vars, lifetime_vars>>
    \/ WorkerFinishes /\ UNCHANGED <<conn_vars, router_vars, accept_vars, limiter_vars, ws_vars, parse_vars, lifetime_vars>>
    \/ WorkerReturns /\ UNCHANGED <<conn_vars, router_vars, accept_vars, limiter_vars, ws_vars, parse_vars, lifetime_vars>>
    \/ WorkerFindsNothing /\ UNCHANGED <<conn_vars, router_vars, accept_vars, limiter_vars, ws_vars, parse_vars, lifetime_vars>>
    \/ WorkerBlocks /\ UNCHANGED <<conn_vars, router_vars, accept_vars, limiter_vars, ws_vars, parse_vars, lifetime_vars>>
    \/ ShutdownCalled /\ UNCHANGED <<conn_vars, router_vars, accept_vars, limiter_vars, ws_vars, parse_vars, lifetime_vars>>
    \/ ShutdownNotifies /\ UNCHANGED <<conn_vars, router_vars, accept_vars, limiter_vars, ws_vars, parse_vars, lifetime_vars>>
    \/ ShutdownReturns /\ UNCHANGED <<conn_vars, router_vars, accept_vars, limiter_vars, ws_vars, parse_vars, lifetime_vars>>

PoolSpec == PoolInit /\ [][PoolNext]_vars

\* the threads of the pool and the caller of shutdown are scheduled, and a
\* task that runs returns; nobody has to enqueue
PoolFairness ==
    /\ WF_vars(WorkerTakes /\ UNCHANGED <<conn_vars, router_vars, accept_vars, limiter_vars, ws_vars, parse_vars, lifetime_vars>>)
    /\ WF_vars(WorkerFinishes /\ UNCHANGED <<conn_vars, router_vars, accept_vars, limiter_vars, ws_vars, parse_vars, lifetime_vars>>)
    /\ WF_vars(WorkerReturns /\ UNCHANGED <<conn_vars, router_vars, accept_vars, limiter_vars, ws_vars, parse_vars, lifetime_vars>>)
    /\ WF_vars(WorkerFindsNothing /\ UNCHANGED <<conn_vars, router_vars, accept_vars, limiter_vars, ws_vars, parse_vars, lifetime_vars>>)
    /\ WF_vars(WorkerBlocks /\ UNCHANGED <<conn_vars, router_vars, accept_vars, limiter_vars, ws_vars, parse_vars, lifetime_vars>>)
    /\ WF_vars(ShutdownNotifies /\ UNCHANGED <<conn_vars, router_vars, accept_vars, limiter_vars, ws_vars, parse_vars, lifetime_vars>>)
    /\ WF_vars(ShutdownReturns /\ UNCHANGED <<conn_vars, router_vars, accept_vars, limiter_vars, ws_vars, parse_vars, lifetime_vars>>)

PoolFairSpec == PoolInit /\ [][PoolNext]_vars /\ PoolFairness

(***************************************************************************)
(* RateLimiter: the callers, update_config, the cleanup thread and the     *)
(* destructor, interleaved.                                                *)
(***************************************************************************)
LifetimeInit ==
    /\ Quiescent
    /\ running_ = FALSE
    /\ max_connections = 1
    /\ active_connections = 0
    /\ total_connections = 0
    /\ accept_pending = FALSE
    /\ io_stopped = FALSE
    /\ connections = <<>>
    /\ LimiterIdle
    /\ WsIdle
    /\ ParseIdle
    /\ PoolIdle
    /\ rate_limiter = NewRateLimiter

LifetimeNext ==
    \/ CheckRequestCalled /\ UNCHANGED <<conn_vars, router_vars, accept_vars, limiter_vars, ws_vars, parse_vars, pool_vars>>
    \/ CheckRequestReturns /\ UNCHANGED <<conn_vars, router_vars, accept_vars, limiter_vars, ws_vars, parse_vars, pool_vars>>
    \/ UpdateConfig /\ UNCHANGED <<conn_vars, router_vars, accept_vars, limiter_vars, ws_vars, parse_vars, pool_vars>>
    \/ CleanupLoops /\ UNCHANGED <<conn_vars, router_vars, accept_vars, limiter_vars, ws_vars, parse_vars, pool_vars>>
    \/ CleanupTestsPredicate /\ UNCHANGED <<conn_vars, router_vars, accept_vars, limiter_vars, ws_vars, parse_vars, pool_vars>>
    \/ CleanupSleeps /\ UNCHANGED <<conn_vars, router_vars, accept_vars, limiter_vars, ws_vars, parse_vars, pool_vars>>
    \/ CleanupTimesOut /\ UNCHANGED <<conn_vars, router_vars, accept_vars, limiter_vars, ws_vars, parse_vars, pool_vars>>
    \/ CleanupPasses /\ UNCHANGED <<conn_vars, router_vars, accept_vars, limiter_vars, ws_vars, parse_vars, pool_vars>>
    \/ CleanupPassReturns /\ UNCHANGED <<conn_vars, router_vars, accept_vars, limiter_vars, ws_vars, parse_vars, pool_vars>>
    \/ DestructorStores /\ UNCHANGED <<conn_vars, router_vars, accept_vars, limiter_vars, ws_vars, parse_vars, pool_vars>>
    \/ DestructorNotifies /\ UNCHANGED <<conn_vars, router_vars, accept_vars, limiter_vars, ws_vars, parse_vars, pool_vars>>
    \/ DestructorJoins /\ UNCHANGED <<conn_vars, router_vars, accept_vars, limiter_vars, ws_vars, parse_vars, pool_vars>>

LifetimeSpec == LifetimeInit /\ [][LifetimeNext]_vars

(***************************************************************************)
(* Properties.                                                             *)
(***************************************************************************)
Writing == {"writing_headers", "writing_body"}
Last(q) == q[Len(q)]

\* the header block of data, read as request line and header lines
HeaderBlock(data) ==
    LET lines == Lines(Take(data, HeaderEnd(data) - 1))
    IN IF lines = <<>> THEN EmptyRequest
       ELSE parse_header_lines(parse_request_line(EmptyRequest, PopCR(Head(lines))), Tail(lines))

BodyBytes(data) == Size(data) - Size(Take(data, BodyStart(data, HeaderEnd(data)) - 1))

ChunkedTerminator == <<CR, LF, ZERO, CR, LF, CR, LF>>

\* one complete request: the header terminator, and the chunked terminator or
\* Content-Length body bytes
CompleteRequest(data) ==
    /\ HeaderEnd(data) # 0
    /\ IF is_chunked(HeaderBlock(data))
       THEN Find(data, ChunkedTerminator) # 0
       ELSE BodyBytes(data) >= content_length(HeaderBlock(data))

WellFormedLine(data) ==
    /\ HeaderBlock(data).method # "UNKNOWN"
    /\ HeaderBlock(data).path # ""
    /\ is_valid_http_version(HeaderBlock(data).version)

\* the index of the last token of the request at the front of data
RequestEnd(data) ==
    LET body_start == BodyStart(data, HeaderEnd(data))
        body_view == Drop(data, body_start - 1)
    IN IF is_chunked(HeaderBlock(data))
       THEN Find(data, ChunkedTerminator) + Len(ChunkedTerminator) - 1
       ELSE body_start - 1 + Len(TakeBytes(body_view, content_length(HeaderBlock(data))))

\* C1: a connection that holds one complete, well-formed request in its buffer
\* (at most 1 MiB, timer not fired) is not left waiting for more bytes: the
\* handler has been invoked and the response is being written.
C1_CompleteRequestIsProcessed ==
    (stage = "reading" /\ Size(request_data) <= MAX_REQUEST_SIZE)
        => ~(CompleteRequest(request_data) /\ WellFormedLine(request_data))

\* C2: request/response pairs of a connection are serialized in arrival order:
\* a handler is invoked only when the event before it is the completed write of
\* the earlier response, and every response of a handler is written right after
\* that handler's call and before any other.
C2_Serialized ==
    /\ \A i \in 2..Len(log) : log[i].e = "handler" => log[i - 1].e = "written"
    /\ \A i \in 1..Len(log) :
         (log[i].e = "handler" /\ i < Len(log))
            => /\ log[i + 1].e = "written"
               /\ log[i + 1].id = log[i].id
               /\ log[i + 1].status = log[i].status
    /\ \A i \in 1..Len(log) : \A j \in 1..Len(log) :
         (i < j /\ log[i].e = "handler" /\ log[j].e = "handler") => log[i].id < log[j].id

C2_Witness ==
    /\ Len(log) >= 4
    /\ log[1].e = "handler" /\ log[2].e = "written"
    /\ log[3].e = "handler" /\ log[4].e = "written"

\* C3: when the last write of a response completes, the header block has been
\* written once and the body bytes written equal the response's Content-Length.
C3_BodyWrittenOnce ==
    [][(log' # log /\ Last(log').e = "written")
         => (sent'.hdr = 1 /\ sent'.body = response.content_length)]_vars

\* C4: after the response to a keep-alive request has been written, the buffer
\* holds exactly the bytes received after the end of that request.
C4_BufferKeepsLaterBytes ==
    [][(stage \in Writing /\ stage' = "reading" /\ CompleteRequest(request_data)
          /\ Size(request_data) <= MAX_REQUEST_SIZE)
         => request_data' = Drop(request_data, RequestEnd(request_data))]_vars

\* C5: a request whose header block is complete but whose request line is
\* malformed is answered with 400: the connection is not left waiting for
\* more bytes with such a request in its buffer.
C5_MalformedGets400 ==
    (stage = "reading" /\ Size(request_data) <= MAX_REQUEST_SIZE)
        => ~(HeaderEnd(request_data) # 0 /\ ~WellFormedLine(request_data))

\* C6: a connection that answers 413 for a buffer that grew past 1 MiB without
\* a complete request closes after the response; it never reads again.
C6_TooLargeCloses ==
    [][(stage \in Writing /\ response.status = 413 /\ ~CompleteRequest(request_data))
         => stage' # "reading"]_vars

C8_TimerMeasuresInactivity ==
    closed_by = "timeout" => now - last_rx >= TIMEOUT

\* keep-alive as the claim has it
ClaimedKeepAlive(req) ==
    LET c == get_header(req, "connection")
    IN \/ (c.has /\ ToLower(c.v) = "keep-alive")
       \/ (req.version = "HTTP/1.1" /\ ~(c.has /\ ToLower(c.v) = "close"))

\* C9: a parsed request is treated as keep-alive if and only if it has
\* Connection: keep-alive, or is HTTP/1.1 without Connection: close; after the
\* response to any other request the socket is closed.  (A 101 answer to a
\* protocol upgrade is left out: the rule is about ordinary requests.)
C9_KeepAliveRule ==
    [][(stage \in Writing /\ log' # log /\ parse(request_data).ok /\ response.status # 101)
         => ((stage' = "reading") <=> ClaimedKeepAlive(parse(request_data)))]_vars

\* the response after middleware 1..j have been called in order
RECURSIVE AfterMiddleware(_, _)
AfterMiddleware(chain, j) ==
    IF j = 0 THEN NewResponse(200)
    ELSE CallMiddleware(chain[j], AfterMiddleware(chain, j - 1)).response

FirstStop(chain) ==
    LET stops == {j \in 1..Len(chain) : chain[j].stop}
    IN IF stops = {} THEN 0 ELSE CHOOSE j \in stops : \A k \in stops : j <= k

\* C10: middleware run in registration order; when one returns stop, no later
\* middleware, no route handler and no static-file lookup runs, and the
\* response is the one the middleware left.
C10_MiddlewareOrderAndStop ==
    LET c == r_out.calls
        ch == r_out.chain
        n == Cardinality({j \in 1..Len(c) : c[j].k = "mw"})
    IN r_out # NoCall =>
         /\ \A j \in 1..Len(c) : (j <= n) <=> (c[j].k = "mw")
         /\ \A j \in 1..n : c[j].i = j
         /\ n = IF FirstStop(ch) = 0 THEN Len(ch) ELSE FirstStop(ch)
         /\ FirstStop(ch) # 0 =>
              /\ Len(c) = n
              /\ r_out.response = AfterMiddleware(ch, n)

C10_Witness ==
    /\ Len(r_out.chain) = 3
    /\ FirstStop(r_out.chain) = 2
    /\ Len(r_out.calls) = 2
    /\ r_out.response.status = 429
    /\ r_out.request.path = "/hello"

\* C11: when the rate-limit middleware allows a request and a route handler
\* answers it, the response carries X-RateLimit-Limit and X-RateLimit-Remaining.
C11_RateLimitHeadersOnRouteResponse ==
    (/\ r_out # NoCall
     /\ \E j \in 1..Len(r_out.chain) :
          ~r_out.chain[j].stop /\ r_out.chain[j].hdrs = RateLimitAllowHeaders
     /\ FirstStop(r_out.chain) = 0
     /\ Len(r_out.calls) > 0
     /\ Last(r_out.calls).k = "route")
    => RateLimitAllowHeaders \subseteq r_out.response.xhdrs

\* C12: a WebSocket upgrade request passes through the middleware chain like
\* every request: when a middleware of the chain answers stop, the request
\* handler does not answer 101.
C12_UpgradePassesMiddleware ==
    (h_out # NoCall /\ FirstStop(h_out.chain) # 0) => h_out.response.status # 101

\* C13: when the 101 response to a WebSocket upgrade has been written, the
\* HTTP connection does not close the socket.
C13_UpgradedSocketStaysOpen ==
    [][(stage \in Writing /\ response.status = 101 /\ log' # log) => stage' # "closed"]_vars

\* C14: an upgrade attempt (Upgrade: websocket) is answered 101 only if it
\* has a Connection header containing Upgrade, Sec-WebSocket-Version 13 and
\* a Sec-WebSocket-Key of 16 decoded bytes; every other attempt is answered
\* 400 with an X-WebSocket-Reject-Reason header.
C14_HandshakeValidated ==
    (/\ h_out # NoCall
     /\ get_header(h_out.request, "Upgrade").has
     /\ get_header(h_out.request, "Upgrade").v = "websocket")
    => /\ h_out.response.status = 101 => handshake(h_out.request)
       /\ ~handshake(h_out.request) =>
            /\ h_out.response.status = 400
            /\ "X-WebSocket-Reject-Reason" \in h_out.response.xhdrs

\* the file a path names lies inside the directory root
InsideRoot(at, root) == Len(at) > Len(root) /\ Take(at, Len(root)) = root

\* C15: a static-file response with file content is only produced for a file
\* inside the document root; a path that resolves outside it gets 403 or 404.
C15_StaticFilesStayInRoot ==
    (r_out # NoCall /\ Len(r_out.calls) > 0 /\ Last(r_out.calls).k = "static")
    => /\ r_out.response.status = 200 =>
            \E f \in Files : f.tag = r_out.response.tag /\ InsideRoot(f.at, document_root)
       /\ ~InsideRoot(weakly_canonical(<<>>, document_root \o RelativePath(r_out.request.path)),
                      document_root)
            => r_out.response.status \in {403, 404}

\* the route of a registered pattern and method
RouteOf(pattern, method) == CHOOSE h \in Routes : h.path = pattern /\ h.method = method

\* the patterns matching a request, as positions of the registration sequence
MatchingRegistered(req) ==
    {i \in DOMAIN Registration :
       /\ \E h \in WildcardRoutes : h.path = Registration[i] /\ h.method = req.method
       /\ path_matches(Registration[i], req.path)}

\* C16: when no exact route matches and two or more wildcard patterns match,
\* the handler that answers is the one of the pattern registered first.
C16_FirstRegisteredWildcardWins ==
    (/\ r_out # NoCall
     /\ FirstStop(r_out.chain) = 0
     /\ ExactRoutes(r_out.request) = {}
     /\ Cardinality(MatchingRegistered(r_out.request)) >= 2)
    => r_out.response.tag =
         RouteOf(Registration[FirstOf(MatchingRegistered(r_out.request))],
                 r_out.request.method).tag

\* C17: the number of active connections never exceeds max_connections; a
\* connection that arrives when the limit is reached is refused.
C17_ConnectionLimit == active_connections <= max_connections

\* the j-th check of h is made less than a duration of d seconds after the
\* first check of the key
WithinOf(h, j, d) == h[j].at - h[1].at < d * TicksPerSecond

\* C18 for the history of one key
TokenBucketContract(h) ==
    \A j \in 1..Len(h) :
        /\ (WithinOf(h, j, config_.window_duration) /\ j <= config_.burst_capacity)
             => h[j].allowed /\ h[j].remaining = config_.burst_capacity - j
        /\ (WithinOf(h, j, config_.window_duration) /\ j = config_.burst_capacity + 1)
             => ~h[j].allowed /\ h[j].remaining = 0
        /\ (~h[j].fresh /\ h[j].at - h[j].since >= config_.window_duration * TicksPerSecond)
             => h[j].allowed

\* C18: token bucket, for a key not checked before and capacity B: the first B
\* checks made within one refill interval are allowed with remaining B-1 .. 0,
\* the next check in that interval is denied with remaining 0, and a check
\* made when a full refill interval has passed since the last refill is allowed.
C18_TokenBucketBurstAndRefill ==
    (config_.enabled /\ config_.strategy = "TOKEN_BUCKET")
    => \A key \in Keys : TokenBucketContract(checks[key])

\* the checks up to the j-th of h that were allowed in the window of the j-th
AllowedInWindow(h, j) == {i \in 1..j : h[i].start = h[j].start /\ h[i].allowed}

\* C19 for the history of one key
FixedWindowContract(h) ==
    \A j \in 1..Len(h) :
        /\ Cardinality(AllowedInWindow(h, j)) <= config_.max_requests
        /\ h[j].start # h[j].since
             => h[j].at - h[j].since >= config_.window_duration * TicksPerSecond
        /\ (j > 1 /\ h[j].start # h[j - 1].start)
             => h[j].at - h[j - 1].start >= config_.window_duration * TicksPerSecond
        /\ (j > 1 /\ Cardinality(AllowedInWindow(h, j - 1)) = config_.max_requests
                  /\ h[j].start = h[j - 1].start)
             => /\ ~h[j].allowed
                /\ h[j].reset_time = config_.window_duration - Seconds(h[j].at - h[j].since)
        /\ (j > 1 /\ h[j].at >= h[j - 1].start + config_.window_duration * TicksPerSecond)
             => h[j].allowed

\* C19: fixed window, for every key: at most max_requests checks are allowed
\* between one window reset and the next, a reset happens only at a check
\* made when elapsed >= window_duration, every further check in a full window
\* is denied with reset_time = window_duration - elapsed, and the first check
\* at or after window_start + window_duration is allowed.
C19_FixedWindowLimit ==
    (config_.enabled /\ config_.strategy = "FIXED_WINDOW")
    => \A key \in Keys : FixedWindowContract(checks[key])

\* the allowed checks of h with a timestamp in the window that ends at t
AllowedWithin(h, t) ==
    {j \in 1..Len(h) :
       /\ h[j].allowed
       /\ h[j].ts <= t
       /\ h[j].ts >= t - config_.window_duration * TicksPerSecond}

\* C20: sliding window, for every key and every instant t: the allowed checks
\* with a timestamp within the window_duration that ends at t are at most
\* max_requests.
C20_SlidingWindowLimit ==
    (config_.enabled /\ config_.strategy = "SLIDING_WINDOW")
    => \A key \in Keys : \A t \in Instants :
           Cardinality(AllowedWithin(checks[key], t)) <= config_.max_requests

\* the token bucket run on the checks of one history h alone, up to the
\* j-th: the bucket it leaves and the result it returns
RECURSIVE token_alone(_, _)
token_alone(h, j) ==
    IF j = 0 THEN [entry |-> NoBucket, allowed |-> FALSE, remaining |-> 0]
    ELSE LET found == IF h[j].fresh THEN BucketState(capacity_, h[j].ts)
                      ELSE token_alone(h, j - 1).entry
             refilled == refill(found, h[j].at, Seconds(h[j].at - found.last_refill))
         IN [entry |-> take_token(refilled), allowed |-> refilled.tokens > 0,
             remaining |-> take_token(refilled).tokens]

\* the fixed window run on the checks of h alone
RECURSIVE window_alone(_, _)
window_alone(h, j) ==
    IF j = 0 THEN [entry |-> NoWindow, allowed |-> FALSE, remaining |-> 0]
    ELSE LET found == IF h[j].fresh
                      THEN [present |-> TRUE, count |-> 0, window_start |-> h[j].ts]
                      ELSE window_alone(h, j - 1).entry
             current == reset_window(found, h[j].at, Seconds(h[j].at - found.window_start))
         IN [entry |-> count_request(current), allowed |-> current.count < max_requests_,
             remaining |-> IF current.count < max_requests_
                           THEN max_requests_ - (current.count + 1) ELSE 0]

\* the last n elements of a sequence
LastN(q, n) == SubSeq(q, Len(q) - n + 1, Len(q))

\* the sliding window run on the checks of h alone; the log a check finds is
\* what cleanup left of the log of the check before
RECURSIVE sliding_alone(_, _)
sliding_alone(h, j) ==
    IF j = 0 THEN [entry |-> <<>>, allowed |-> FALSE, remaining |-> 0]
    ELSE LET found == LastN(sliding_alone(h, j - 1).entry, h[j].since)
             kept == remove_expired(found, h[j].at - window_duration_ * TicksPerSecond)
         IN [entry |-> IF Len(kept) < max_requests_ THEN Append(kept, h[j].ts) ELSE kept,
             allowed |-> Len(kept) < max_requests_,
             remaining |-> IF Len(kept) < max_requests_
                           THEN max_requests_ - (Len(kept) + 1) ELSE 0]

\* what the j-th check of h found is what its own checks and the cleanup
\* thread can have left: an entry is missing, or records are, only when
\* cleanup_expired could have removed them
FoundOwnState(h, j) ==
    CASE config_.strategy = "TOKEN_BUCKET" ->
           /\ j = 1 => h[j].fresh
           /\ (h[j].fresh /\ j > 1)
                => Minutes(h[j].at - token_alone(h, j - 1).entry.last_refill) > 60
      [] config_.strategy = "FIXED_WINDOW" ->
           /\ j = 1 => h[j].fresh
           /\ (h[j].fresh /\ j > 1)
                => Minutes(h[j].at - window_alone(h, j - 1).entry.window_start) > 60
      [] config_.strategy = "SLIDING_WINDOW" ->
           /\ h[j].since <= Len(sliding_alone(h, j - 1).entry)
           /\ \A i \in 1..(Len(sliding_alone(h, j - 1).entry) - h[j].since) :
                  sliding_alone(h, j - 1).entry[i] < h[j].at - Hour

\* the result the algorithm returns for the j-th check of h run alone
ResultAlone(h, j) ==
    CASE config_.strategy = "TOKEN_BUCKET" -> token_alone(h, j)
      [] config_.strategy = "FIXED_WINDOW" -> window_alone(h, j)
      [] config_.strategy = "SLIDING_WINDOW" -> sliding_alone(h, j)

\* C21: for each algorithm and each key, the decisions and remaining counts
\* returned for the key are those the algorithm returns when run on the
\* key's own checks alone, whatever checks are made for the other key.
C21_KeysDoNotShareBudget ==
    config_.enabled => \A key \in Keys : \A j \in 1..Len(checks[key]) :
        /\ FoundOwnState(checks[key], j)
        /\ checks[key][j].allowed = ResultAlone(checks[key], j).allowed
        /\ checks[key][j].remaining = ResultAlone(checks[key], j).remaining

\* both keys were checked in turn, and one was denied while the other,
\* checked after it, was allowed
C21_Witness ==
    /\ Len(checks["10.0.0.1"]) = 2 /\ Len(checks["10.0.0.2"]) = 1
    /\ ~checks["10.0.0.1"][2].allowed
    /\ checks["10.0.0.2"][1].allowed
    /\ checks["10.0.0.2"][1].at >= checks["10.0.0.1"][2].at

\* C22: whenever the rate-limit middleware denies a request it returns stop,
\* and the response it leaves carries X-RateLimit-Limit, X-RateLimit-Remaining,
\* X-RateLimit-Reset and X-RateLimit-Type.
C22_DenyCarriesRateLimitHeaders ==
    (m_out.called /\ ~m_out.result.allowed)
    => ~m_out.continue /\ RateLimitDenyHeaders \subseteq m_out.response.xhdrs

\* the limiter holds no entry for any key
NoKeyState ==
    /\ buckets_ = [key \in Keys |-> NoBucket]
    /\ windows_ = [key \in Keys |-> NoWindow]
    /\ request_logs_ = [key \in Keys |-> <<>>]

\* C23: while the limiter is disabled, every check returns allowed = true,
\* remaining = SIZE_MAX and limit_type "disabled" and no per-key state
\* exists, and the middleware returns continue and leaves the response as
\* it was.
C23_DisabledLimiterPassesThrough ==
    ~config_.enabled
    => /\ \A key \in Keys : \A j \in 1..Len(checks[key]) :
             /\ checks[key][j].allowed
             /\ checks[key][j].remaining = SIZE_MAX
             /\ checks[key][j].limit_type = "disabled"
       /\ NoKeyState
       /\ m_out.called => m_out.continue /\ m_out.response = m_out.before


\* C24: the connection's state changes only one step along CONNECTING, OPEN,
\* CLOSING, CLOSED: it becomes OPEN only by a handshake, it leaves OPEN for
\* CLOSING (a CLOSE frame was received or sent), and it becomes CLOSED only
\* from CLOSING and with the socket closed.
C24_StateOrder ==
    [][ws'.state_ # ws.state_ =>
         /\ <<ws.state_, ws'.state_>> \in {<<"CONNECTING", "OPEN">>,
                                          <<"OPEN", "CLOSING">>,
                                          <<"CLOSING", "CLOSED">>}
         /\ ws'.state_ = "OPEN" => ws'.last.op = "handshake"
         /\ ws'.state_ = "CLOSED" => ~ws'.socket_open]_vars

\* the payloads of the frames, one after the other
RECURSIVE JoinedPayloads(_)
JoinedPayloads(frames) ==
    IF frames = <<>> THEN <<>> ELSE Head(frames).payload \o JoinedPayloads(Tail(frames))

MessageHandlerOf(opcode) == IF opcode = "TEXT" THEN "text" ELSE "binary"

\* C25: a frame of a fragmented message that is not its last invokes no
\* handler, and the frame with FIN that ends it invokes the message handler
\* exactly once, with the payloads of all its fragments in order.
C25_FragmentedMessageDeliveredOnce ==
    [][ws'.last.op = "read" =>
         /\ (ws'.last.arg.opcode \in {"TEXT", "BINARY", "CONTINUATION"} /\ ~ws'.last.arg.fin)
               => ws'.last.calls = <<>>
         /\ (ws'.last.arg.opcode = "CONTINUATION" /\ ws'.last.arg.fin /\ ws.fragments # <<>>)
               => ws'.last.calls =
                    <<[h |-> MessageHandlerOf(ws.fragments[1].opcode),
                       arg |-> JoinedPayloads(ws.fragments) \o ws'.last.arg.payload]>>]_vars

\* C26: the inactivity timeout closes an open connection only when 60 seconds
\* have passed since the last frame of any kind was received (or since
\* start()), and no open connection stays without a frame for longer.
C26_TimeoutAfterSixtySilentSeconds ==
    [][/\ (ws'.last.op = "timeout" /\ ws'.last.calls # <<>>)
            => ws.clock - ws.last_rx >= WS_TIMEOUT
       /\ (ws'.state_ = "OPEN" /\ ws'.reading)
            => ws'.clock - ws'.last_rx <= WS_TIMEOUT]_vars

\* what holds after close() on an open connection, whatever the payload of
\* its frame: calls in CLOSING do nothing, and the socket is closed and the
\* state CLOSED when the 100 ms are over
ClosingContract ==
    /\ (ws.state_ = "CLOSING" /\ ws'.last.op = "send")
         => ws'.last.sent = <<>> /\ ws'.writes = ws.writes /\ ws'.state_ = "CLOSING"
    /\ (ws.state_ = "CLOSING" /\ ws'.last.op = "close")
         => /\ ws'.last.sent = <<>> /\ ws'.writes = ws.writes
            /\ ws'.state_ = "CLOSING" /\ ws'.timeout_timer_ = ws.timeout_timer_
    /\ ws'.state_ = "CLOSING" => ws'.clock <= ws'.close_at + CLOSE_DELAY
    /\ ws'.last.op = "close_timer" => ws'.state_ = "CLOSED" /\ ~ws'.socket_open

\* close(code, reason) was called on an open connection
CloseOfOpen == ws.state_ = "OPEN" /\ ws'.last.op = "close"

C28_OneWriteAtATime ==
    /\ Len(ws.writes) <= 1
    /\ ws.wire_in_order

\* the chunks before the first part that is no chunk
RECURSIVE LeadingChunks(_)
LeadingChunks(parts) ==
    IF parts = <<>> \/ Head(parts) \notin {"chunk1", "chunk2"} THEN <<>>
    ELSE <<Head(parts)>> \o LeadingChunks(Tail(parts))

RECURSIVE ChunksData(_)
ChunksData(parts) ==
    IF parts = <<>> THEN <<>> ELSE ChunkData(Head(parts)) \o ChunksData(Tail(parts))

\* the body is chunks and then a zero-size chunk, whatever follows it
HasTerminatingChunk(parts) ==
    /\ Len(LeadingChunks(parts)) < Len(parts)
    /\ parts[Len(LeadingChunks(parts)) + 1] = "last"

\* C29: a chunked request is parsed successfully only if its body has a
\* terminating zero-size chunk, and the parsed body is then the data of the
\* chunks before the first zero-size chunk, whatever follows that chunk.
C29_ChunkedNeedsZeroChunk ==
    (chunked.parsed.done /\ chunked.parsed.request.ok)
      => /\ HasTerminatingChunk(chunked.parts)
         /\ chunked.parsed.request.body = ChunksData(LeadingChunks(chunked.parts))

\* C30: when shutdown() has returned, every task that was enqueued before
\* the call has finished.
C30_ShutdownWaitsForTasks ==
    pool.shutdown = "returned" => pool.before \subseteq pool.finished

\* the check the step made for key, if it made one
CheckedNow(key) == Len(checks'[key]) = Len(checks[key]) + 1

\* the whole refill intervals between the last refill and the check
IdleIntervals(rec) == Seconds(rec.at - rec.since) \div config_.window_duration

\* C31 for the check the step made for key: rec is its record, tokens the
\* tokens of the bucket before it
TokenStep(key, rec, tokens) ==
    /\ rec.fresh => rec.allowed /\ buckets_'[key].tokens = config_.burst_capacity - 1
    /\ (~rec.fresh /\ rec.start = rec.since /\ rec.allowed)
         => buckets_'[key].tokens = tokens - 1
    /\ ~rec.allowed => tokens = 0 /\ buckets_'[key].tokens = 0
    /\ (/\ ~rec.fresh
        /\ IdleIntervals(rec) >= 1
        /\ IdleIntervals(rec) * config_.max_requests >= config_.burst_capacity - tokens)
         => rec.allowed /\ buckets_'[key].tokens = config_.burst_capacity - 1

\* C31: the tokens of every bucket stay between 0 and the capacity; a check
\* that is allowed takes exactly one token, a check that is denied finds and
\* leaves no token, and a check after enough whole refill intervals finds the
\* bucket at exactly its capacity (and takes one token of it).
C31_TokensWithinCapacity ==
    [][(config_.enabled /\ config_.strategy = "TOKEN_BUCKET")
         => \A key \in Keys :
              /\ buckets_'[key].present
                   => buckets_'[key].tokens \in 0..config_.burst_capacity
              /\ CheckedNow(key)
                   => TokenStep(key, Last(checks'[key]), buckets_[key].tokens)]_vars

\* a bucket of capacity 2 that had one token left was found full again, by a
\* refill that was cut at the capacity
C31_Witness ==
    /\ config_.strategy = "TOKEN_BUCKET" /\ config_.enabled
    /\ config_.burst_capacity = 2 /\ config_.max_requests = 2
    /\ \E key \in Keys :
         /\ Len(checks[key]) = 2
         /\ checks[key][1].remaining = 1
         /\ ~checks[key][2].fresh /\ checks[key][2].start # checks[key][2].since
         /\ checks[key][2].remaining = 1
         /\ buckets_[key].tokens = 1

\* the state the limiter keeps for a key
KeyState(key) == <<buckets_[key], windows_[key], request_logs_[key]>>

\* C33: for each algorithm, a cleanup pass removes or changes the state of a
\* key only if the most recent check of the key was more than one hour
\* before the pass.
C33_CleanupOnlyAfterIdleHour ==
    [][(checks' = checks /\ clock' = clock)
         => \A key \in Keys :
              (KeyState(key)' # KeyState(key) /\ checks[key] # <<>>)
                => clock - Last(checks[key]).at > Hour]_vars

\* the first j timed checks of h as they go when no cleanup pass runs: only
\* the first check finds no entry, and every check finds the whole log
RECURSIVE WithoutCleanup(_, _)
WithoutCleanup(h, j) ==
    IF j = 0 THEN <<>>
    ELSE LET prev == WithoutCleanup(h, j - 1)
         IN Append(prev,
                   [h[j] EXCEPT !.fresh = (j = 1),
                                !.since = IF config_.strategy = "SLIDING_WINDOW"
                                          THEN Len(sliding_alone(prev, j - 1).entry)
                                          ELSE @])

\* C37: for every algorithm and key, the allow/deny results of the checks,
\* with cleanup passes run at any points between them, are the results the
\* same timed checks get when no cleanup pass runs at all.
C37_CleanupKeepsDecisions ==
    config_.enabled => \A key \in Keys : \A j \in 1..Len(checks[key]) :
        checks[key][j].allowed
          = ResultAlone(WithoutCleanup(checks[key], Len(checks[key])), j).allowed

Live == {i \in 1..Len(connections) : connections[i] # "destroyed"}

\* C34: active_connections is the number of accepted connections whose Connection
\* object is not destroyed, so it lies between 0 and total_connections; and the
\* counter goes down only by one, for one connection that was closed, as that
\* connection is destroyed.
C34_ActiveCountsLiveConnections ==
    [][/\ active_connections = Cardinality(Live)
       /\ 0 <= active_connections
       /\ active_connections <= total_connections
       /\ total_connections = Len(connections)
       /\ (\A i \in 1..Len(connections) :
             (connections[i] # "destroyed" /\ connections'[i] = "destroyed")
                => /\ connections[i] = "closed"
                   /\ active_connections' = active_connections - 1)
       /\ (active_connections' < active_connections
             => \E i \in 1..Len(connections) :
                  connections[i] = "closed" /\ connections'[i] = "destroyed")]_vars

\* two connections were accepted, one is destroyed and one is still open
C34_Witness ==
    /\ total_connections = 2
    /\ active_connections = 1
    /\ \E i, j \in 1..Len(connections) : connections[i] = "destroyed" /\ connections[j] = "open"

\* C39: while the server is running an accept is pending on the listener.
C39_AcceptAlwaysPending == running_ => accept_pending

\* C40: once the connection has reached CLOSED (by a CLOSE frame, an error, the
\* timeout or close()), no step invokes a text, binary, close or error handler:
\* neither a later step, nor the rest of the step that closed it.
C40_NoHandlerAfterClosed ==
    [][/\ ~ws'.last.late
       /\ ws.state_ = "CLOSED" => (ws'.last = ws.last \/ ws'.last.calls = <<>>)]_vars

\* C36: shutdown() terminates: once it is called, every worker leaves its wait
\* and returns, and the joins of shutdown() return.
C36_ShutdownTerminates ==
    (pool.shutdown # "no") ~> (pool.shutdown = "returned")

\* C32: every check_request and every cleanup pass operates on an algorithm
\* object that is alive: update_config never destroys the object a call is in.
C32_NoCallOnDestroyedAlgorithm ==
    /\ \A t \in Callers : rate_limiter.calling[t] \notin rate_limiter.destroyed
    /\ rate_limiter.cleaning \notin rate_limiter.destroyed

\* C35: once the destructor has signalled shutdown (stop_cleanup_ stored and
\* notify_one called) the cleanup thread is not asleep in wait_for, so join
\* does not wait for the 5 minutes to pass, and it begins no cleanup pass.
C35_DestructorWakesWorker ==
    [][/\ rate_limiter'.destructor = "join" => rate_limiter'.worker # "blocked"
       /\ (rate_limiter.destructor = "join" /\ rate_limiter'.worker = "cleanup_expired")
             => rate_limiter.worker = "cleanup_expired"]_vars

====
